---- MODULE Spec2Model ----
(***************************************************************************)
(* Model of golikejs: the Channel class (ring buffer, sender and receiver  *)
(* waiter queues, close) and the tasks that drive it.                      *)
(*                                                                         *)
(* A channel is a record holding the private fields of the class.  Every   *)
(* method is an operator from a channel (and its arguments) to a result    *)
(* record                                                                  *)
(*    ch   the channel after the call                                      *)
(*    st   what happened to the promise of the call: "resolved", "pending" *)
(*         or "rejected"; "returned" for the synchronous methods           *)
(*    val, ok   the value and the ok flag the call returned                *)
(*    wake the resolve() calls the method made on queued waiters, in order *)
(***************************************************************************)
EXTENDS Integers, Sequences, FiniteSets, TLC

VARIABLES chans, prom, obs, last, nops, pc, collected, sel,
          mu, rw, sem, task, wg, cond, ctx

vars == <<chans, prom, obs, last, nops, pc, collected, sel, mu, rw, sem, task,
          wg, cond, ctx>>

(* the state of the channel specifications, and of the lock specifications *)
chanVars == <<chans, prom, pc, collected, sel>>
syncVars == <<mu, rw, sem, task>>
(* the wait group, the condition variable and the contexts *)
restVars == <<wg, cond, ctx>>

(* ----------------------------- bounds ---------------------------------- *)
MaxCap == 2
NProm == 3
MaxOps == 8

(* `undefined`; the values that are sent are positive *)
Undefined == 0

(* promises of the calls made by plain tasks *)
PromIds == 1..NProm

Range(s) == {s[i] : i \in 1..Len(s)}
IsPrefix(s, t) == Len(s) <= Len(t) /\ \A i \in 1..Len(s) : s[i] = t[i]

(* ----------------------------- Channel --------------------------------- *)
Channel(capacity) ==
  [capacity |-> capacity,
   buffer |-> [i \in 0..(capacity - 1) |-> Undefined],
   head |-> 0, tail |-> 0, count |-> 0, closed |-> FALSE,
   sendWaiters |-> <<>>, receiveWaiters |-> <<>>]

Result(ch, st, val, ok, wake) ==
  [ch |-> ch, st |-> st, val |-> val, ok |-> ok, wake |-> wake]

WakeReceiver(waiter, val, ok) ==
  [kind |-> "receive", resolve |-> waiter.resolve, val |-> val, ok |-> ok]

WakeSender(waiter) ==
  [kind |-> "send", resolve |-> waiter.resolve, val |-> Undefined, ok |-> TRUE]

(* write at tail *)
PushTail(ch, value) ==
  [ch EXCEPT !.buffer[ch.tail] = value,
             !.tail = (ch.tail + 1) % ch.capacity,
             !.count = ch.count + 1]

(* read at head *)
PopHead(ch) ==
  [ch EXCEPT !.buffer[ch.head] = Undefined,
             !.head = (ch.head + 1) % ch.capacity,
             !.count = ch.count - 1]

(* processSendWaiters taking the newest waiter instead of the oldest *)
RECURSIVE processSendWaiters_lifo(_)
processSendWaiters_lifo(ch) ==
  IF ch.count < ch.capacity /\ Len(ch.sendWaiters) > 0
  THEN LET n == Len(ch.sendWaiters)
           waiter == ch.sendWaiters[n]
           rest == processSendWaiters_lifo(
                     [PushTail(ch, waiter.value) EXCEPT !.sendWaiters = SubSeq(ch.sendWaiters, 1, n - 1)])
       IN [ch |-> rest.ch, wake |-> <<WakeSender(waiter)>> \o rest.wake]
  ELSE [ch |-> ch, wake |-> <<>>]

RECURSIVE processSendWaiters(_)
processSendWaiters(ch) ==
  IF ch.count < ch.capacity /\ Len(ch.sendWaiters) > 0
  THEN LET waiter == Head(ch.sendWaiters)
           rest == processSendWaiters(
                     [PushTail(ch, waiter.value) EXCEPT !.sendWaiters = Tail(ch.sendWaiters)])
       IN [ch |-> rest.ch, wake |-> <<WakeSender(waiter)>> \o rest.wake]
  ELSE [ch |-> ch, wake |-> <<>>]

(* send that completes at once instead of suspending *)
send_noSuspend(ch, value, p) ==
  IF ch.closed
  THEN Result(ch, "rejected", Undefined, FALSE, <<>>)
  ELSE IF Len(ch.receiveWaiters) > 0
  THEN Result([ch EXCEPT !.receiveWaiters = Tail(ch.receiveWaiters)],
              "resolved", Undefined, TRUE,
              <<WakeReceiver(Head(ch.receiveWaiters), value, TRUE)>>)
  ELSE IF ch.capacity > 0 /\ ch.count < ch.capacity
  THEN Result(PushTail(ch, value), "resolved", Undefined, TRUE, <<>>)
  ELSE Result([ch EXCEPT !.sendWaiters = Append(ch.sendWaiters, [value |-> value, resolve |-> p])],
              "resolved", Undefined, TRUE, <<>>)

send(ch, value, p) ==
  IF ch.closed
  THEN Result(ch, "rejected", Undefined, FALSE, <<>>)
  ELSE IF Len(ch.receiveWaiters) > 0
  THEN Result([ch EXCEPT !.receiveWaiters = Tail(ch.receiveWaiters)],
              "resolved", Undefined, TRUE,
              <<WakeReceiver(Head(ch.receiveWaiters), value, TRUE)>>)
  ELSE IF ch.capacity > 0 /\ ch.count < ch.capacity
  THEN Result(PushTail(ch, value), "resolved", Undefined, TRUE, <<>>)
  ELSE Result([ch EXCEPT !.sendWaiters = Append(ch.sendWaiters, [value |-> value, resolve |-> p])],
              "pending", Undefined, FALSE, <<>>)

(* receive that tests the closed flag before the buffer *)
receive_closedFirst(ch, p) ==
  IF ch.closed
  THEN Result(ch, "resolved", Undefined, FALSE, <<>>)
  ELSE IF ch.count > 0
  THEN LET r == processSendWaiters(PopHead(ch))
       IN Result(r.ch, "resolved", ch.buffer[ch.head], TRUE, r.wake)
  ELSE IF Len(ch.sendWaiters) > 0
  THEN LET waiter == Head(ch.sendWaiters)
       IN Result([ch EXCEPT !.sendWaiters = Tail(ch.sendWaiters)],
                 "resolved", waiter.value, TRUE, <<WakeSender(waiter)>>)
  ELSE Result([ch EXCEPT !.receiveWaiters = Append(ch.receiveWaiters, [resolve |-> p])],
              "pending", Undefined, FALSE, <<>>)

receive(ch, p) ==
  IF ch.count > 0
  THEN LET r == processSendWaiters(PopHead(ch))
       IN Result(r.ch, "resolved", ch.buffer[ch.head], TRUE, r.wake)
  ELSE IF Len(ch.sendWaiters) > 0
  THEN LET waiter == Head(ch.sendWaiters)
       IN Result([ch EXCEPT !.sendWaiters = Tail(ch.sendWaiters)],
                 "resolved", waiter.value, TRUE, <<WakeSender(waiter)>>)
  ELSE IF ch.closed
  THEN Result(ch, "resolved", Undefined, FALSE, <<>>)
  ELSE Result([ch EXCEPT !.receiveWaiters = Append(ch.receiveWaiters, [resolve |-> p])],
              "pending", Undefined, FALSE, <<>>)

(* close that resolves the receivers but leaves them in the queue *)
close_keepReceivers(ch) ==
  IF ch.closed
  THEN Result(ch, "returned", Undefined, TRUE, <<>>)
  ELSE Result([ch EXCEPT !.closed = TRUE, !.sendWaiters = <<>>],
              "returned", Undefined, TRUE,
              [i \in 1..Len(ch.receiveWaiters) |->
                 WakeReceiver(ch.receiveWaiters[i], Undefined, FALSE)])

(* close that throws on a closed channel, as Go's close does *)
close_throws(ch) ==
  IF ch.closed
  THEN Result(ch, "thrown", Undefined, FALSE, <<>>)
  ELSE Result([ch EXCEPT !.closed = TRUE, !.sendWaiters = <<>>, !.receiveWaiters = <<>>],
              "returned", Undefined, TRUE,
              [i \in 1..Len(ch.receiveWaiters) |->
                 WakeReceiver(ch.receiveWaiters[i], Undefined, FALSE)])

(* close that leaves the suspended senders in their queue *)
close_keepSenders(ch) ==
  IF ch.closed
  THEN Result(ch, "returned", Undefined, TRUE, <<>>)
  ELSE Result([ch EXCEPT !.closed = TRUE, !.receiveWaiters = <<>>],
              "returned", Undefined, TRUE,
              [i \in 1..Len(ch.receiveWaiters) |->
                 WakeReceiver(ch.receiveWaiters[i], Undefined, FALSE)])

close(ch) ==
  IF ch.closed
  THEN Result(ch, "returned", Undefined, TRUE, <<>>)
  ELSE Result([ch EXCEPT !.closed = TRUE, !.sendWaiters = <<>>, !.receiveWaiters = <<>>],
              "returned", Undefined, TRUE,
              [i \in 1..Len(ch.receiveWaiters) |->
                 WakeReceiver(ch.receiveWaiters[i], Undefined, FALSE)])

(* tryReceive that looks at the buffer only, not at suspended senders *)
tryReceive_bufferOnly(ch) ==
  IF ch.count > 0
  THEN LET r == processSendWaiters(PopHead(ch))
       IN Result(r.ch, "returned", ch.buffer[ch.head], TRUE, r.wake)
  ELSE Result(ch, "returned", Undefined, FALSE, <<>>)

(* tryReceive that leaves the freed slot to the next call *)
tryReceive_noRefill(ch) ==
  IF ch.count > 0
  THEN Result(PopHead(ch), "returned", ch.buffer[ch.head], TRUE, <<>>)
  ELSE IF Len(ch.sendWaiters) > 0
  THEN LET waiter == Head(ch.sendWaiters)
       IN Result([ch EXCEPT !.sendWaiters = Tail(ch.sendWaiters)],
                 "returned", waiter.value, TRUE, <<WakeSender(waiter)>>)
  ELSE Result(ch, "returned", Undefined, FALSE, <<>>)

tryReceive(ch) ==
  IF ch.count > 0
  THEN LET r == processSendWaiters(PopHead(ch))
       IN Result(r.ch, "returned", ch.buffer[ch.head], TRUE, r.wake)
  ELSE IF Len(ch.sendWaiters) > 0
  THEN LET waiter == Head(ch.sendWaiters)
       IN Result([ch EXCEPT !.sendWaiters = Tail(ch.sendWaiters)],
                 "returned", waiter.value, TRUE, <<WakeSender(waiter)>>)
  ELSE Result(ch, "returned", Undefined, FALSE, <<>>)

(* trySend without the test for free space *)
trySend_noSpaceCheck(ch, value) ==
  IF ch.closed
  THEN Result(ch, "returned", Undefined, FALSE, <<>>)
  ELSE IF Len(ch.receiveWaiters) > 0
  THEN Result([ch EXCEPT !.receiveWaiters = Tail(ch.receiveWaiters)],
              "returned", Undefined, TRUE,
              <<WakeReceiver(Head(ch.receiveWaiters), value, TRUE)>>)
  ELSE IF ch.capacity > 0
  THEN Result(PushTail(ch, value), "returned", Undefined, TRUE, <<>>)
  ELSE Result(ch, "returned", Undefined, FALSE, <<>>)

(* trySend without the test of the closed flag *)
trySend_noClosedCheck(ch, value) ==
  IF Len(ch.receiveWaiters) > 0
  THEN Result([ch EXCEPT !.receiveWaiters = Tail(ch.receiveWaiters)],
              "returned", Undefined, TRUE,
              <<WakeReceiver(Head(ch.receiveWaiters), value, TRUE)>>)
  ELSE IF ch.capacity > 0 /\ ch.count < ch.capacity
  THEN Result(PushTail(ch, value), "returned", Undefined, TRUE, <<>>)
  ELSE Result(ch, "returned", Undefined, FALSE, <<>>)

(* trySend that does not hand the value to a waiting receiver *)
trySend_noHandOff(ch, value) ==
  IF ch.closed
  THEN Result(ch, "returned", Undefined, FALSE, <<>>)
  ELSE IF ch.capacity > 0 /\ ch.count < ch.capacity
  THEN Result(PushTail(ch, value), "returned", Undefined, TRUE, <<>>)
  ELSE Result(ch, "returned", Undefined, FALSE, <<>>)

(* trySend that queues its value as a waiting sender when it fails *)
trySend_queues(ch, value) ==
  IF ch.closed
  THEN Result(ch, "returned", Undefined, FALSE, <<>>)
  ELSE IF Len(ch.receiveWaiters) > 0
  THEN Result([ch EXCEPT !.receiveWaiters = Tail(ch.receiveWaiters)],
              "returned", Undefined, TRUE,
              <<WakeReceiver(Head(ch.receiveWaiters), value, TRUE)>>)
  ELSE IF ch.capacity > 0 /\ ch.count < ch.capacity
  THEN Result(PushTail(ch, value), "returned", Undefined, TRUE, <<>>)
  ELSE Result([ch EXCEPT !.sendWaiters = Append(@, [value |-> value, resolve |-> 0])],
              "returned", Undefined, FALSE, <<>>)

trySend(ch, value) ==
  IF ch.closed
  THEN Result(ch, "returned", Undefined, FALSE, <<>>)
  ELSE IF Len(ch.receiveWaiters) > 0
  THEN Result([ch EXCEPT !.receiveWaiters = Tail(ch.receiveWaiters)],
              "returned", Undefined, TRUE,
              <<WakeReceiver(Head(ch.receiveWaiters), value, TRUE)>>)
  ELSE IF ch.capacity > 0 /\ ch.count < ch.capacity
  THEN Result(PushTail(ch, value), "returned", Undefined, TRUE, <<>>)
  ELSE Result(ch, "returned", Undefined, FALSE, <<>>)

(* get length() *)
length(ch) == ch.count

(* the buffered values, oldest first *)
Contents(ch) == [i \in 1..ch.count |-> ch.buffer[(ch.head + i - 1) % ch.capacity]]

(* ----------------------------- promises -------------------------------- *)
(* One record per promise returned by send()/receive(); n counts the       *)
(* resolve() calls made on it by the channel.                              *)
IdleProm ==
  [op |-> "none", ch |-> "none", st |-> "idle", arg |-> Undefined,
   val |-> Undefined, ok |-> FALSE, n |-> 0]

NewProm(op, c, arg, r) ==
  [op |-> op, ch |-> c, st |-> r.st, arg |-> arg, val |-> r.val, ok |-> r.ok, n |-> 0]

(* resolve() settles a pending promise; on a settled one it has no effect *)
Settle(pr, e) ==
  LET old == pr[e.resolve]
  IN [pr EXCEPT ![e.resolve] =
        IF old.st = "pending"
        THEN [old EXCEPT !.st = "resolved", !.n = old.n + 1,
                         !.val = IF e.kind = "receive" THEN e.val ELSE old.val,
                         !.ok = e.ok]
        ELSE [old EXCEPT !.n = old.n + 1]]

RECURSIVE ApplyWake(_, _)
ApplyWake(pr, wake) ==
  IF wake = <<>> THEN pr ELSE ApplyWake(Settle(pr, Head(wake)), Tail(wake))

(* values handed to suspended receivers by a list of resolve() calls *)
RECURSIVE WakeVals(_)
WakeVals(wake) ==
  IF wake = <<>> THEN <<>>
  ELSE (IF Head(wake).kind = "receive" /\ Head(wake).ok THEN <<Head(wake).val>> ELSE <<>>)
       \o WakeVals(Tail(wake))

(* the suspended receivers resolved by a list of resolve() calls *)
RECURSIVE WakeReceivers(_)
WakeReceivers(wake) ==
  IF wake = <<>> THEN <<>>
  ELSE (IF Head(wake).kind = "receive" THEN <<Head(wake).resolve>> ELSE <<>>)
       \o WakeReceivers(Tail(wake))

(* the promises settled by a list of resolve() calls, in order *)
RECURSIVE WakeSettled(_, _)
WakeSettled(pr, wake) ==
  IF wake = <<>> THEN <<>>
  ELSE (IF pr[Head(wake).resolve].st = "pending" THEN <<Head(wake).resolve>> ELSE <<>>)
       \o WakeSettled(Settle(pr, Head(wake)), Tail(wake))

IsReceiveOp(op) == op \in {"receive", "tryReceive"}
IsSendOp(op) == op \in {"send", "trySend"}

(* the send was accepted: it completed, or its sender was suspended *)
Accepted(op, r) ==
  \/ op = "send" /\ r.st \in {"resolved", "pending"}
  \/ op = "trySend" /\ r.ok

(* the call itself returned a value *)
Returned(op, r) == IsReceiveOp(op) /\ r.st \in {"resolved", "returned"} /\ r.ok

(* ----------------------------- one call -------------------------------- *)
(* obs records what the callers of channel c saw:                          *)
(*   sentLog[c]   values accepted by send/trySend, in call order           *)
(*   recvLog[c]   values handed to receive/tryReceive, in delivery order   *)
(*   suspLog[c]   promises of the receive() calls that were suspended      *)
(*   servedLog[c] promises of suspended receivers, in resolution order     *)
(*   closeBuf[c]  buffer contents at the first close()                     *)
(*   drained[c]   results of receive/tryReceive calls made after close()   *)
(*   settled      promises of send()/receive() calls in the order they     *)
(*                settled, for the promises above NProm (those of select)  *)
Observe(o, ch, pr, c, op, p, arg, r) ==
  [sentLog |-> [o.sentLog EXCEPT ![c] = IF Accepted(op, r) THEN Append(@, arg) ELSE @],
   recvLog |-> [o.recvLog EXCEPT ![c] =
                  @ \o (IF Returned(op, r) THEN <<r.val>> ELSE <<>>) \o WakeVals(r.wake)],
   suspLog |-> [o.suspLog EXCEPT ![c] =
                  IF op = "receive" /\ r.st = "pending" THEN Append(@, p) ELSE @],
   servedLog |-> [o.servedLog EXCEPT ![c] = @ \o WakeReceivers(r.wake)],
   closeBuf |-> [o.closeBuf EXCEPT ![c] =
                   IF op = "close" /\ ~ch.closed THEN Contents(ch) ELSE @],
   drained |-> [o.drained EXCEPT ![c] =
                  IF IsReceiveOp(op) /\ ch.closed
                  THEN Append(@, [st |-> r.st, val |-> r.val, ok |-> r.ok]) ELSE @],
   settled |-> o.settled
               \o (IF op \in {"send", "receive"} /\ p > NProm /\ r.st # "pending"
                   THEN <<p>> ELSE <<>>)
               \o SelectSeq(WakeSettled(pr, r.wake), LAMBDA q : q > NProm)]

(* the method op of channel c, called with promise p and argument arg *)
Method(ch, op, p, arg) ==
  CASE op = "send" -> send(ch, arg, p)
    [] op = "receive" -> receive(ch, p)
    [] op = "trySend" -> trySend(ch, arg)
    [] op = "tryReceive" -> tryReceive(ch)
    [] op = "close" -> close(ch)

(* the state w = [chans, prom, obs] after the call, and the result r *)
Do(w, c, op, p, arg) ==
  LET r == Method(w.chans[c], op, p, arg)
      pr == IF op \in {"send", "receive"}
            THEN [w.prom EXCEPT ![p] = NewProm(op, c, arg, r)]
            ELSE w.prom
  IN [chans |-> [w.chans EXCEPT ![c] = r.ch],
      prom |-> ApplyWake(pr, r.wake),
      obs |-> Observe(w.obs, w.chans[c], pr, c, op, p, arg, r),
      r |-> r]

World == [chans |-> chans, prom |-> prom, obs |-> obs]

Commit(w) == chans' = w.chans /\ prom' = w.prom /\ obs' = w.obs

(* one call of a method by a task *)
Call(c, op, p, arg) ==
  LET w == Do(World, c, op, p, arg)
  IN /\ Commit(w)
     /\ last' = [op |-> op, c |-> c, p |-> p, arg |-> arg,
                 st |-> w.r.st, val |-> w.r.val, ok |-> w.r.ok, wake |-> w.r.wake]
     /\ nops' = nops + 1

(* the next value to send on channel c; every sent value is distinct *)
NextVal(c) == Len(obs.sentLog[c]) + 1

InitObs(C, P) ==
  /\ prom = [p \in P |-> IdleProm]
  /\ obs = [sentLog |-> [c \in C |-> <<>>], recvLog |-> [c \in C |-> <<>>],
            suspLog |-> [c \in C |-> <<>>], servedLog |-> [c \in C |-> <<>>],
            closeBuf |-> [c \in C |-> <<>>], drained |-> [c \in C |-> <<>>],
            settled |-> <<>>]
  /\ last = [op |-> "none", c |-> "none", p |-> 0, arg |-> Undefined,
             st |-> "returned", val |-> Undefined, ok |-> FALSE, wake |-> <<>>]
  /\ nops = 0

(* the promises are interchangeable: a call takes the first one that is   *)
(* not pending                                                            *)
Free(p) == prom[p].st # "pending" /\ \A q \in PromIds : q < p => prom[q].st = "pending"

(* await ch.send(value) by a task that is not suspended *)
Send(c) ==
  /\ \E p \in PromIds : Free(p) /\ Call(c, "send", p, NextVal(c))

(* await ch.receive() by a task that is not suspended *)
Receive(c) ==
  /\ \E p \in PromIds : Free(p) /\ Call(c, "receive", p, Undefined)

TrySend(c) == Call(c, "trySend", 0, NextVal(c))

TryReceive(c) == Call(c, "tryReceive", 0, Undefined)

Close(c) == Call(c, "close", 0, Undefined)

(* ------------------------- one channel, any calls ---------------------- *)
NoTasks == pc = <<>> /\ collected = <<>>

NoSelect == sel = [st |-> "none"]

(* no Mutex, RWMutex or Semaphore is in use *)
NoSync == mu = <<>> /\ rw = <<>> /\ sem = <<>> /\ task = <<>>

(* no wait group, no condition variable, no context *)
NoRest == wg = <<>> /\ cond = <<>> /\ ctx = <<>>

Init ==
  /\ \E capacity \in 0..MaxCap : chans = [c \in {"ch"} |-> Channel(capacity)]
  /\ InitObs({"ch"}, PromIds)
  /\ NoTasks
  /\ NoSelect
  /\ NoSync /\ NoRest

Next ==
  \/ nops < MaxOps /\ Send("ch") /\ UNCHANGED <<pc, collected, sel, syncVars, restVars>>
  \/ nops < MaxOps /\ Receive("ch") /\ UNCHANGED <<pc, collected, sel, syncVars, restVars>>
  \/ nops < MaxOps /\ TrySend("ch") /\ UNCHANGED <<pc, collected, sel, syncVars, restVars>>
  \/ nops < MaxOps /\ TryReceive("ch") /\ UNCHANGED <<pc, collected, sel, syncVars, restVars>>
  \/ nops < MaxOps /\ Close("ch") /\ UNCHANGED <<pc, collected, sel, syncVars, restVars>>

Spec == Init /\ [][Next]_vars

(* ----------------------- producer and consumer -------------------------- *)
(* producer:  for (i = 1..NumItems) await ch.send(i);  ch.close()          *)
(* consumer:  for (;;) { [v, ok] = await ch.receive();                     *)
(*                       if (!ok) break;  collected.push(v) }              *)
(* A step of a task runs from one await to the next.                       *)
PCCap == 3
NumItems == 5

Producer == 1
Consumer == 2

PCInit ==
  /\ \E capacity \in 0..PCCap : chans = [c \in {"ch"} |-> Channel(capacity)]
  /\ InitObs({"ch"}, {Producer, Consumer})
  /\ pc = [t \in {Producer, Consumer} |-> "run"]
  /\ collected = <<>>
  /\ NoSelect
  /\ NoSync /\ NoRest

ProducerStep ==
  /\ pc[Producer] = "run"
  /\ prom[Producer].st # "pending"
  /\ IF prom[Producer].st = "rejected"
     THEN /\ pc' = [pc EXCEPT ![Producer] = "failed"]
          /\ UNCHANGED <<chans, prom, obs, last, nops>>
     ELSE IF Len(obs.sentLog["ch"]) < NumItems
     THEN /\ Call("ch", "send", Producer, NextVal("ch"))
          /\ UNCHANGED pc
     ELSE /\ Call("ch", "close", 0, Undefined)
          /\ pc' = [pc EXCEPT ![Producer] = "done"]
  /\ UNCHANGED <<collected, sel, syncVars, restVars>>

ConsumerStep ==
  /\ pc[Consumer] = "run"
  /\ prom[Consumer].st # "pending"
  /\ IF prom[Consumer].st = "resolved" /\ ~prom[Consumer].ok
     THEN /\ pc' = [pc EXCEPT ![Consumer] = "done"]
          /\ UNCHANGED <<chans, prom, obs, last, nops, collected>>
     ELSE /\ collected' = IF prom[Consumer].st = "resolved"
                          THEN Append(collected, prom[Consumer].val)
                          ELSE collected
          /\ Call("ch", "receive", Consumer, Undefined)
          /\ UNCHANGED pc
  /\ UNCHANGED <<sel, syncVars, restVars>>

PCNext == ProducerStep \/ ConsumerStep

(* the event loop runs every task whose awaited promise has settled *)
PCSpec == PCInit /\ [][PCNext]_vars /\ WF_vars(ProducerStep) /\ WF_vars(ConsumerStep)

(* ------------------------------- select -------------------------------- *)
(* select(cases): the immediate pass tries every case in order with        *)
(* tryReceive/trySend; then the default case; then the blocking pass calls *)
(* receive()/send() for every case and commits to the promise that settles *)
(* first.  The promise of case i is NProm + i.                             *)
SelCap == 1
MaxCases == 2
SelMaxOps == 3

Chans == {"ch1", "ch2"}

ReceiveCase(c) == [kind |-> "receive", ch |-> c, value |-> Undefined]
SendCase(c, v) == [kind |-> "send", ch |-> c, value |-> v]
DefaultCase == [kind |-> "default", ch |-> "none", value |-> Undefined]

CasePromise(i) == NProm + i

(* the value sent by the send case at position i *)
CaseValue(i) == 100 + i

CaseAt(k, i) ==
  IF k[1] = "default" THEN DefaultCase
  ELSE IF k[1] = "send" THEN SendCase(k[2], CaseValue(i)) ELSE ReceiveCase(k[2])

CaseKinds == {"receive", "send"} \X Chans

CaseLists ==
  UNION {{[i \in 1..n |-> CaseAt(k[i], i)] : k \in [1..n -> {<<"default", "none">>} \cup CaseKinds]}
         : n \in 0..MaxCases}

TryOp(case) == IF case.kind = "send" THEN "trySend" ELSE "tryReceive"

RECURSIVE immediatePass(_, _, _)
immediatePass(w, cases, i) ==
  IF i > Len(cases) THEN [w |-> w, hit |-> 0]
  ELSE IF cases[i].kind = "default" THEN immediatePass(w, cases, i + 1)
  ELSE LET w2 == Do(w, cases[i].ch, TryOp(cases[i]), 0, cases[i].value)
       IN IF w2.r.ok THEN [w |-> w2, hit |-> i]
          ELSE immediatePass(w2, cases, i + 1)

DefaultIndex(cases) ==
  IF \E i \in 1..Len(cases) : cases[i].kind = "default"
  THEN CHOOSE i \in 1..Len(cases) :
         /\ cases[i].kind = "default"
         /\ \A j \in 1..(i - 1) : cases[j].kind # "default"
  ELSE 0

RECURSIVE blockingPass(_, _, _)
blockingPass(w, cases, i) ==
  IF i > Len(cases) THEN w
  ELSE blockingPass(Do(w, cases[i].ch, cases[i].kind, CasePromise(i), cases[i].value),
                    cases, i + 1)

(* select without the test for an empty case list *)
select_noEmptyCheck(w, cases) ==
  LET im == immediatePass(w, cases, 1)
  IN IF im.hit > 0
     THEN [w |-> im.w,
           sel |-> [st |-> "done", cases |-> cases, hit |-> im.hit, fired |-> <<im.hit>>,
                    error |-> "none"]]
     ELSE IF DefaultIndex(cases) > 0
     THEN [w |-> im.w,
           sel |-> [st |-> "done", cases |-> cases, hit |-> 0,
                    fired |-> <<DefaultIndex(cases)>>, error |-> "none"]]
     ELSE [w |-> blockingPass(im.w, cases, 1),
           sel |-> [st |-> "blocked", cases |-> cases, hit |-> 0, fired |-> <<>>,
                    error |-> "none"]]

(* sel after the synchronous part of select(cases), and the state w *)
select(w, cases) ==
  IF cases = <<>>
  THEN [w |-> w, sel |-> [st |-> "failed", cases |-> cases, hit |-> 0, fired |-> <<>>,
                          error |-> "select: no cases provided"]]
  ELSE LET im == immediatePass(w, cases, 1)
       IN IF im.hit > 0
          THEN [w |-> im.w,
                sel |-> [st |-> "done", cases |-> cases, hit |-> im.hit, fired |-> <<im.hit>>,
                         error |-> "none"]]
          ELSE IF DefaultIndex(cases) > 0
          THEN [w |-> im.w,
                sel |-> [st |-> "done", cases |-> cases, hit |-> 0,
                         fired |-> <<DefaultIndex(cases)>>, error |-> "none"]]
          ELSE [w |-> blockingPass(im.w, cases, 1),
                sel |-> [st |-> "blocked", cases |-> cases, hit |-> 0, fired |-> <<>>,
                         error |-> "none"]]

SelInit ==
  /\ chans \in [Chans -> {Channel(capacity) : capacity \in 0..SelCap}]
  /\ InitObs(Chans, 1..(NProm + MaxCases))
  /\ NoTasks
  /\ sel = [st |-> "idle", cases |-> <<>>, hit |-> 0, fired |-> <<>>, error |-> "none"]
  /\ NoSync /\ NoRest

(* await select(cases), up to its first suspension *)
SelectCall ==
  /\ nops < SelMaxOps
  /\ sel.st = "idle"
  /\ \E cases \in CaseLists :
       LET s == select(World, cases)
       IN /\ Commit([chans |-> s.w.chans, prom |-> s.w.prom, obs |-> s.w.obs])
          /\ sel' = s.sel
  /\ last' = [op |-> "select", c |-> "none", p |-> 0, arg |-> Undefined,
              st |-> sel'.st, val |-> Undefined, ok |-> sel'.st = "done", wake |-> <<>>]
  /\ nops' = nops + 1
  /\ UNCHANGED <<pc, collected, syncVars, restVars>>

(* the race is decided by the first promise that settled *)
SelectResume ==
  /\ sel.st = "blocked"
  /\ obs.settled # <<>>
  /\ LET winner == obs.settled[1]
     IN sel' = IF prom[winner].st = "rejected"
               THEN [sel EXCEPT !.st = "failed", !.error = "Channel: send on closed channel"]
               ELSE [sel EXCEPT !.st = "done", !.fired = <<winner - NProm>>]
  /\ UNCHANGED <<chans, prom, obs, last, nops, pc, collected, syncVars, restVars>>

SelNext ==
  \/ SelectCall
  \/ SelectResume
  \/ nops < SelMaxOps /\ \E c \in Chans : Send(c) /\ UNCHANGED <<pc, collected, sel, syncVars, restVars>>
  \/ nops < SelMaxOps /\ \E c \in Chans : Receive(c) /\ UNCHANGED <<pc, collected, sel, syncVars, restVars>>
  \/ nops < SelMaxOps /\ \E c \in Chans : Close(c) /\ UNCHANGED <<pc, collected, sel, syncVars, restVars>>

SelSpec == SelInit /\ [][SelNext]_vars

(* =========================== Channel claims ============================ *)
(* the step is a call of method op on channel c *)
Calls(op, c) == nops' = nops + 1 /\ last'.op = op /\ last'.c = c

Increasing(s) == \A i, j \in 1..Len(s) : i < j => s[i] < s[j]

(* C1: close draining.  With N values buffered at close(), the receive     *)
(* calls made after the close return those N values with ok = true, oldest *)
(* first (the order they were sent in), and every call after them returns  *)
(* (undefined, false); none of these calls is suspended.                   *)
C1_CloseDraining ==
  \A c \in DOMAIN chans :
    /\ Increasing(obs.closeBuf[c])
    /\ \A i \in 1..Len(obs.drained[c]) :
         /\ obs.drained[c][i].st \in {"resolved", "returned"}
         /\ IF i <= Len(obs.closeBuf[c])
            THEN obs.drained[c][i].ok /\ obs.drained[c][i].val = obs.closeBuf[c][i]
            ELSE ~obs.drained[c][i].ok /\ obs.drained[c][i].val = Undefined

C1_Witness ==
  \E c \in DOMAIN chans :
    /\ chans[c].closed
    /\ Len(obs.closeBuf[c]) >= 2
    /\ Len(obs.drained[c]) >= Len(obs.closeBuf[c]) + 2
    /\ last.op = "receive"

(* C3: FIFO order.  The values handed to receivers are the accepted values *)
(* in the order of their send/trySend calls, and suspended receivers are   *)
(* resolved in the order of their receive calls.                           *)
C3_Fifo ==
  \A c \in DOMAIN chans :
    /\ IsPrefix(obs.recvLog[c], obs.sentLog[c])
    /\ IsPrefix(obs.servedLog[c], obs.suspLog[c])

(* two suspended receivers were served, and a receive took a buffered      *)
(* value while a suspended sender was moved into the buffer                *)
C3_Witness ==
  \E c \in DOMAIN chans :
    /\ Len(obs.servedLog[c]) >= 2
    /\ Len(obs.recvLog[c]) >= 3
    /\ last.op = "receive" /\ last.ok /\ last.wake # <<>>
    /\ chans[c].count > 0

(* C4: capacity bound.  0 <= length <= capacity, and length = 0 on an      *)
(* unbuffered channel.                                                     *)
C4_CapacityBound ==
  \A c \in DOMAIN chans :
    /\ 0 <= length(chans[c])
    /\ length(chans[c]) <= chans[c].capacity
    /\ chans[c].capacity = 0 => length(chans[c]) = 0

(* a trySend was refused by a full buffer *)
C4_Witness ==
  \E c \in DOMAIN chans :
    /\ chans[c].capacity > 0
    /\ length(chans[c]) = chans[c].capacity
    /\ last.op = "trySend" /\ last.c = c /\ ~last.ok
    /\ ~chans[c].closed

(* C5: unbuffered rendezvous.  On a capacity-0 channel the value of every  *)
(* completed send has been handed to a receiver, and a trySend that        *)
(* returned true handed its value to a receiver that was waiting.          *)
C5_Rendezvous ==
  \A c \in DOMAIN chans :
    chans[c].capacity = 0 =>
      /\ \A p \in DOMAIN prom :
           (prom[p].op = "send" /\ prom[p].ch = c /\ prom[p].st = "resolved")
             => prom[p].arg \in Range(obs.recvLog[c])
      /\ (last.op = "trySend" /\ last.c = c /\ last.ok)
           => (Len(last.wake) = 1 /\ last.wake[1].kind = "receive")

(* a suspended send was completed by a receive, and one is still suspended *)
C5_Witness ==
  \E c \in DOMAIN chans :
    /\ chans[c].capacity = 0
    /\ \E p \in DOMAIN prom : prom[p].op = "send" /\ prom[p].st = "resolved" /\ prom[p].n = 1
    /\ \E p \in DOMAIN prom : prom[p].op = "send" /\ prom[p].st = "pending"

(* C6: close() resolves every suspended receiver with (undefined, false)   *)
(* and empties the receiver queue; no promise is resolved twice.           *)
C6_CloseWakesReceivers ==
  /\ [](\A p \in DOMAIN prom : prom[p].n <= 1)
  /\ [][\A c \in DOMAIN chans :
          (Calls("close", c) /\ ~chans[c].closed) =>
            /\ chans'[c].receiveWaiters = <<>>
            /\ \A i \in 1..Len(chans[c].receiveWaiters) :
                 LET q == prom'[chans[c].receiveWaiters[i].resolve]
                 IN q.st = "resolved" /\ q.val = Undefined /\ ~q.ok /\ q.n = 1]_vars

(* a close() that found two suspended receivers *)
C6_Witness ==
  /\ last.op = "close"
  /\ Len(last.wake) >= 2
  /\ \E p \in DOMAIN prom : prom[p].op = "receive" /\ prom[p].st = "resolved" /\ ~prom[p].ok

(* C7: on a closed channel send() is rejected and trySend() returns false, *)
(* and neither changes the channel or settles a promise.                   *)
C7_SendAfterClose ==
  [][\A c \in DOMAIN chans :
       (chans[c].closed /\ (Calls("send", c) \/ Calls("trySend", c))) =>
         /\ chans'[c] = chans[c]
         /\ last'.wake = <<>>
         /\ obs'.sentLog = obs.sentLog
         /\ last'.op = "send" => last'.st = "rejected"
         /\ last'.op = "trySend" => (last'.st = "returned" /\ ~last'.ok)]_vars

(* a trySend and a send on a closed channel with free buffer space *)
C7_Witness ==
  \E c \in DOMAIN chans :
    /\ chans[c].closed
    /\ chans[c].count < chans[c].capacity
    /\ last.op = "trySend" /\ last.c = c
    /\ \E p \in DOMAIN prom : prom[p].st = "rejected"

(* C8: closed is monotonic, and close() on a closed channel returns        *)
(* normally and changes nothing.                                           *)
C8_CloseIdempotent ==
  [][\A c \in DOMAIN chans :
       /\ chans[c].closed => chans'[c].closed
       /\ (chans[c].closed /\ Calls("close", c)) =>
            /\ chans'[c] = chans[c]
            /\ prom' = prom
            /\ last'.st = "returned"]_vars

(* a second close() of a channel that still holds values *)
C8_Witness ==
  \E c \in DOMAIN chans :
    /\ last.op = "close" /\ last.c = c
    /\ Len(obs.drained[c]) > 0
    /\ chans[c].count > 0

(* C9: producer/consumer.  Under every interleaving both tasks terminate   *)
(* and the consumer has collected exactly 1..NumItems, in order.           *)
C9_ProducerConsumer ==
  /\ <>(pc[Producer] = "done" /\ pc[Consumer] = "done")
  /\ [](pc[Consumer] = "done" => collected = [i \in 1..NumItems |-> i])

(* the scenario of the claim: capacity 3, five values, and the producer    *)
(* was suspended on a full buffer on the way                               *)
C9_Witness ==
  /\ pc = [t \in {Producer, Consumer} |-> "done"]
  /\ chans["ch"].capacity = 3
  /\ collected = <<1, 2, 3, 4, 5>>
  /\ prom[Producer].n = 1

(* ============================ select claims ============================ *)
(* the channel operation of case i of the select has taken effect: its     *)
(* value was taken from the sender, or it took a value from the channel    *)
Effect(i) ==
  \/ sel.hit = i
  \/ /\ sel.st \in {"blocked", "done"}
     /\ sel.cases[i].kind # "default"
     /\ prom[CasePromise(i)].st = "resolved"
     /\ (sel.cases[i].kind = "send" \/ prom[CasePromise(i)].ok)

(* C2: a select with a non-empty case list commits exactly one case: at    *)
(* most one callback has run, exactly one once select has resolved, and    *)
(* the channel operation of no other case has taken effect.                *)
C2_ExactlyOneCase ==
  sel.st \in {"blocked", "done"} =>
    /\ Len(sel.fired) <= 1
    /\ sel.st = "done" => Len(sel.fired) = 1
    /\ Cardinality({i \in 1..Len(sel.cases) : Effect(i)}) <= 1
    /\ \A i \in 1..Len(sel.cases) :
         (Effect(i) /\ sel.fired # <<>>) => sel.fired = <<i>>

(* case i can succeed without suspending *)
Ready(cases, i) ==
  IF cases[i].kind = "default" THEN FALSE
  ELSE LET ch == chans[cases[i].ch]
       IN IF cases[i].kind = "receive"
          THEN ch.count > 0 \/ Len(ch.sendWaiters) > 0
          ELSE /\ ~ch.closed
               /\ Len(ch.receiveWaiters) > 0 \/ (ch.capacity > 0 /\ ch.count < ch.capacity)

(* C10: when cases can succeed without suspending at the call of select,   *)
(* the earliest of them commits: its callback is the one that runs, one    *)
(* value is moved on its channel, and every other channel is unchanged.    *)
C10_ImmediateOrder ==
  [][(sel.st = "idle" /\ sel'.st # "idle") =>
       LET cases == sel'.cases
           R == {i \in 1..Len(cases) : Ready(cases, i)}
       IN R # {} =>
            LET e == CHOOSE i \in R : \A j \in R : i <= j
                c == cases[e].ch
            IN /\ sel'.st = "done" /\ sel'.hit = e /\ sel'.fired = <<e>>
               /\ \A d \in DOMAIN chans : d # c =>
                    /\ chans'[d] = chans[d]
                    /\ obs'.sentLog[d] = obs.sentLog[d]
                    /\ obs'.recvLog[d] = obs.recvLog[d]
               /\ IF cases[e].kind = "send"
                  THEN obs'.sentLog[c] = Append(obs.sentLog[c], cases[e].value)
                  ELSE /\ obs'.sentLog[c] = obs.sentLog[c]
                       /\ Len(obs'.recvLog[c]) = Len(obs.recvLog[c]) + 1]_vars

(* the first of two receive cases won while the second could succeed too *)
C10_Witness ==
  /\ last.op = "select"
  /\ sel.st = "done" /\ sel.hit = 1
  /\ Len(sel.cases) >= 2
  /\ sel.cases[1].kind = "receive"
  /\ sel.cases[2].kind = "receive" /\ sel.cases[2].ch # sel.cases[1].ch
  /\ Ready(sel.cases, 2)

(* the step is the call of select *)
SelectCalled == sel.st = "idle" /\ sel'.st # "idle"

(* some case of the list can succeed without suspending *)
SomeReady(cases) == \E i \in 1..Len(cases) : Ready(cases, i)

(* C11: when a receive or send case can succeed at the call of select, the *)
(* default callback does not run, wherever the default case is listed.     *)
C11_DefaultNotPreferred ==
  [][(SelectCalled /\ SomeReady(sel'.cases)) =>
       /\ sel'.fired # <<>>
       /\ \A k \in 1..Len(sel'.fired) : sel'.cases[sel'.fired[k]].kind # "default"]_vars

(* a default case listed first lost to a case listed after it *)
C11_Witness ==
  /\ last.op = "select"
  /\ Len(sel.cases) >= 2
  /\ sel.cases[1].kind = "default"
  /\ sel.hit = 2 /\ sel.fired = <<2>>

(* C12: with a default case and no case that can succeed, select runs the  *)
(* default callback and resolves in the call; no waiter is registered, no  *)
(* promise is settled and no value moves on any channel.                   *)
C12_DefaultFrame ==
  [][(SelectCalled /\ DefaultIndex(sel'.cases) > 0 /\ ~SomeReady(sel'.cases)) =>
       /\ sel'.st = "done"
       /\ sel'.fired = <<DefaultIndex(sel'.cases)>>
       /\ chans' = chans
       /\ prom' = prom
       /\ obs'.sentLog = obs.sentLog
       /\ obs'.recvLog = obs.recvLog
       /\ obs'.settled = obs.settled]_vars

(* the default ran although a receive and a send case were listed *)
C12_Witness ==
  /\ last.op = "select"
  /\ sel.st = "done" /\ sel.hit = 0
  /\ Len(sel.cases) >= 2
  /\ sel.fired = <<DefaultIndex(sel.cases)>>
  /\ \E i \in 1..Len(sel.cases) : sel.cases[i].kind # "default"

(* C13: select with an empty case list fails in the call with             *)
(* 'select: no cases provided'; no callback runs and nothing is touched.   *)
C13_EmptySelect ==
  /\ [](sel.st \notin {"none", "idle"} /\ sel.cases = <<>> =>
          /\ sel.st = "failed"
          /\ sel.error = "select: no cases provided"
          /\ sel.fired = <<>>)
  /\ [][(SelectCalled /\ sel'.cases = <<>>) =>
          (chans' = chans /\ prom' = prom /\ obs' = obs)]_vars

C13_Witness ==
  /\ sel.st = "failed"
  /\ sel.cases = <<>>
  /\ nops > 1

(***************************************************************************)
(* Mutex (src/src/mutex.ts).  A waiter is the resolve function of the       *)
(* promise returned by lock(); it stands here as the id of the task that    *)
(* awaits that promise.                                                     *)
(***************************************************************************)
MuTasks == 4
MuMaxOps == 9
MuTaskIds == 1..MuTasks

(* no channel, no channel promise, no producer or consumer, no select *)
NoChan == chans = <<>> /\ prom = <<>> /\ NoTasks /\ NoSelect

(* what a call on a lock did: the lock after it, how the call ended         *)
(* ("returned", "suspended" or "thrown"), its boolean result, the error,    *)
(* and the waiters it resolved, in the order of the calls                   *)
SyncResult(m, st, ok, error, wake) ==
  [m |-> m, st |-> st, ok |-> ok, error |-> error, wake |-> wake]

Mutex == [locked |-> FALSE, waitQueue |-> <<>>]

Mutex_lock(m, t) ==
  IF ~m.locked
  THEN SyncResult([m EXCEPT !.locked = TRUE], "returned", TRUE, "none", <<>>)
  ELSE SyncResult([m EXCEPT !.waitQueue = Append(@, t)], "suspended", FALSE, "none", <<>>)

(* unlock that frees the mutex while it hands it to the next waiter *)
Mutex_unlock_freeOnHandOff(m) ==
  IF ~m.locked
  THEN SyncResult(m, "thrown", FALSE, "Mutex: unlock of unlocked mutex", <<>>)
  ELSE IF m.waitQueue # <<>>
  THEN SyncResult([m EXCEPT !.waitQueue = Tail(@), !.locked = FALSE], "returned", TRUE, "none",
                  <<Head(m.waitQueue)>>)
  ELSE SyncResult([m EXCEPT !.locked = FALSE], "returned", TRUE, "none", <<>>)

(* unlock that wakes the newest waiter *)
Mutex_unlock_lifo(m) ==
  IF ~m.locked
  THEN SyncResult(m, "thrown", FALSE, "Mutex: unlock of unlocked mutex", <<>>)
  ELSE IF m.waitQueue # <<>>
  THEN SyncResult([m EXCEPT !.waitQueue = SubSeq(@, 1, Len(@) - 1)], "returned", TRUE, "none",
                  <<m.waitQueue[Len(m.waitQueue)]>>)
  ELSE SyncResult([m EXCEPT !.locked = FALSE], "returned", TRUE, "none", <<>>)

(* unlock without the test for an unlocked mutex *)
Mutex_unlock_noCheck(m) ==
  IF m.waitQueue # <<>>
  THEN SyncResult([m EXCEPT !.waitQueue = Tail(@)], "returned", TRUE, "none",
                  <<Head(m.waitQueue)>>)
  ELSE SyncResult([m EXCEPT !.locked = FALSE], "returned", TRUE, "none", <<>>)

(* unlock that frees the mutex and wakes nobody *)
Mutex_unlock_noWake(m) ==
  IF ~m.locked
  THEN SyncResult(m, "thrown", FALSE, "Mutex: unlock of unlocked mutex", <<>>)
  ELSE SyncResult([m EXCEPT !.locked = FALSE], "returned", TRUE, "none", <<>>)

Mutex_unlock(m) ==
  IF ~m.locked
  THEN SyncResult(m, "thrown", FALSE, "Mutex: unlock of unlocked mutex", <<>>)
  ELSE IF m.waitQueue # <<>>
  THEN SyncResult([m EXCEPT !.waitQueue = Tail(@)], "returned", TRUE, "none",
                  <<Head(m.waitQueue)>>)
  ELSE SyncResult([m EXCEPT !.locked = FALSE], "returned", TRUE, "none", <<>>)

Mutex_tryLock(m) ==
  IF ~m.locked
  THEN SyncResult([m EXCEPT !.locked = TRUE], "returned", TRUE, "none", <<>>)
  ELSE SyncResult(m, "returned", FALSE, "none", <<>>)

(* the last call on a lock and how it ended *)
SyncCall(op, t, r) == [op |-> op, t |-> t, st |-> r.st, ok |-> r.ok, error |-> r.error]

(* the tasks after a call of task t that leaves t in state st and resolves *)
(* the promises of the tasks in wake: each of them is now ready to resume  *)
Woken(tk, t, st, wake) ==
  [u \in DOMAIN tk |->
     IF u \in Range(wake) THEN "woken" ELSE IF u = t THEN st ELSE tk[u]]

(* A task is "idle" outside the lock, "waiting" on the pending promise of  *)
(* lock(), "granted" or "woken" when that promise is resolved (at once, or *)
(* by an unlock) and the task has not resumed yet, and "cs1", "cs2" in its *)
(* critical section, before and after the suspension point inside it.      *)
MuInit ==
  /\ mu = Mutex
  /\ task = [t \in MuTaskIds |-> "idle"]
  /\ obs = [waitLog |-> <<>>, acqLog |-> <<>>]
  /\ last = [op |-> "none", t |-> 0, st |-> "none", ok |-> FALSE, error |-> "none"]
  /\ nops = 0
  /\ rw = <<>> /\ sem = <<>>
  /\ NoChan /\ NoRest

(* await mu.lock() *)
MuLock(t) ==
  /\ task[t] = "idle"
  /\ LET r == Mutex_lock(mu, t)
     IN /\ mu' = r.m
        /\ task' = Woken(task, t, IF r.st = "suspended" THEN "waiting" ELSE "granted", r.wake)
        /\ obs' = IF r.st = "suspended"
                  THEN [obs EXCEPT !.waitLog = Append(@, t)]
                  ELSE obs
        /\ last' = SyncCall("lock", t, r)
  /\ nops' = nops + 1
  /\ UNCHANGED <<chanVars, restVars, rw, sem>>

(* the task resumes after await mu.lock() and enters its critical section *)
MuEnter(t) ==
  /\ task[t] \in {"granted", "woken"}
  /\ task' = [task EXCEPT ![t] = "cs1"]
  /\ obs' = IF task[t] = "woken" THEN [obs EXCEPT !.acqLog = Append(@, t)] ELSE obs
  /\ UNCHANGED <<mu, last, nops, chanVars, restVars, rw, sem>>

(* the suspension point inside the critical section *)
MuWork(t) ==
  /\ task[t] = "cs1"
  /\ task' = [task EXCEPT ![t] = "cs2"]
  /\ UNCHANGED <<mu, obs, last, nops, chanVars, restVars, rw, sem>>

(* mu.unlock() at the end of the critical section *)
MuUnlock(t) ==
  /\ task[t] = "cs2"
  /\ LET r == Mutex_unlock(mu)
     IN /\ mu' = r.m
        /\ task' = Woken(task, t, "idle", r.wake)
        /\ last' = SyncCall("unlock", t, r)
  /\ nops' = nops + 1
  /\ UNCHANGED <<obs, chanVars, restVars, rw, sem>>

(* if (mu.tryLock()) { critical section } *)
MuTryLock(t) ==
  /\ task[t] = "idle"
  /\ LET r == Mutex_tryLock(mu)
     IN /\ mu' = r.m
        /\ task' = Woken(task, t, IF r.ok THEN "cs1" ELSE "idle", r.wake)
        /\ last' = SyncCall("tryLock", t, r)
  /\ nops' = nops + 1
  /\ UNCHANGED <<obs, chanVars, restVars, rw, sem>>

(* every task releases the mutex it holds, and only that *)
MuNext ==
  \/ nops < MuMaxOps /\ \E t \in MuTaskIds : MuLock(t)
  \/ \E t \in MuTaskIds : MuEnter(t)
  \/ \E t \in MuTaskIds : MuWork(t)
  \/ nops < MuMaxOps /\ \E t \in MuTaskIds : MuUnlock(t)
  \/ nops < MuMaxOps /\ \E t \in MuTaskIds : MuTryLock(t)

MuSpec == MuInit /\ [][MuNext]_vars

(* the step is a call of op on a lock *)
SyncCalls(op) == nops' = nops + 1 /\ last'.op = op

InCritical == {t \in DOMAIN task : task[t] \in {"cs1", "cs2"}}

(* C14: at most one task is inside its critical section. *)
C14_MutualExclusion ==
  /\ Cardinality(InCritical) <= 1
  /\ InCritical # {} => mu.locked

(* a task is past the suspension point of its critical section, after an   *)
(* unlock that woke it, while two others wait for the mutex                *)
C14_Witness ==
  /\ \E t \in MuTaskIds : task[t] = "cs2"
  /\ Len(mu.waitQueue) >= 2
  /\ obs.acqLog # <<>>

(* C15: the tasks that suspended in lock() acquire the mutex in the order  *)
(* of their calls, and an unlock() hands the mutex to exactly the oldest   *)
(* waiter.                                                                 *)
C15_MutexFifo ==
  /\ [](IsPrefix(obs.acqLog, obs.waitLog))
  /\ [][(SyncCalls("unlock") /\ mu.locked /\ mu.waitQueue # <<>>) =>
          /\ mu'.waitQueue = Tail(mu.waitQueue)
          /\ mu'.locked
          /\ task'[Head(mu.waitQueue)] = "woken"
          /\ \A u \in Range(Tail(mu.waitQueue)) : task'[u] = "waiting"]_vars

(* three waiters have acquired in the order of their calls *)
C15_Witness ==
  /\ Len(obs.acqLog) >= 3
  /\ Cardinality(Range(obs.acqLog)) >= 3
  /\ last.op = "unlock" /\ last.st = "returned"

(***************************************************************************)
(* RWMutex (src/unnamed/part_014).  A queued writer is the resolve         *)
(* function of its promise, a queued reader the closure that counts the    *)
(* reader and resolves its promise; both stand here as the id of the task  *)
(* that awaits the promise.                                                *)
(***************************************************************************)
RWTasks == 4
RWMaxOps == 8
RWTaskIds == 1..RWTasks

RWMutex ==
  [writeLocked |-> FALSE, readCount |-> 0, writeWaitQueue |-> <<>>, readWaitQueue |-> <<>>]

(* processWaitQueue that admits the queued readers before a queued writer *)
processWaitQueue_readersFirst(m) ==
  IF m.readWaitQueue # <<>> /\ ~m.writeLocked
  THEN [m |-> [m EXCEPT !.readWaitQueue = <<>>,
                        !.readCount = @ + Len(m.readWaitQueue)],
        wake |-> m.readWaitQueue]
  ELSE IF m.writeWaitQueue # <<>> /\ m.readCount = 0
  THEN [m |-> [m EXCEPT !.writeWaitQueue = Tail(@), !.writeLocked = TRUE],
        wake |-> <<Head(m.writeWaitQueue)>>]
  ELSE [m |-> m, wake |-> <<>>]

(* the lock after #processWaitQueue() and the waiters it called, in order *)
processWaitQueue(m) ==
  IF m.writeWaitQueue # <<>> /\ m.readCount = 0
  THEN [m |-> [m EXCEPT !.writeWaitQueue = Tail(@), !.writeLocked = TRUE],
        wake |-> <<Head(m.writeWaitQueue)>>]
  ELSE IF m.readWaitQueue # <<>> /\ ~m.writeLocked
  THEN [m |-> [m EXCEPT !.readWaitQueue = <<>>,
                        !.readCount = @ + Len(m.readWaitQueue)],
        wake |-> m.readWaitQueue]
  ELSE [m |-> m, wake |-> <<>>]

(* lock that takes the write lock while readers hold the lock *)
RWMutex_lock_ignoreReaders(m, t) ==
  IF ~m.writeLocked
  THEN SyncResult([m EXCEPT !.writeLocked = TRUE], "returned", TRUE, "none", <<>>)
  ELSE SyncResult([m EXCEPT !.writeWaitQueue = Append(@, t)], "suspended", FALSE, "none", <<>>)

RWMutex_lock(m, t) ==
  IF ~m.writeLocked /\ m.readCount = 0
  THEN SyncResult([m EXCEPT !.writeLocked = TRUE], "returned", TRUE, "none", <<>>)
  ELSE SyncResult([m EXCEPT !.writeWaitQueue = Append(@, t)], "suspended", FALSE, "none", <<>>)

RWMutex_unlock(m) ==
  IF ~m.writeLocked
  THEN SyncResult(m, "thrown", FALSE, "RWMutex: unlock of unlocked write mutex", <<>>)
  ELSE LET q == processWaitQueue([m EXCEPT !.writeLocked = FALSE])
       IN SyncResult(q.m, "returned", TRUE, "none", q.wake)

(* rlock that looks at the write lock only, not at the queued writers *)
rlock_ignoreWriters(m, t) ==
  IF ~m.writeLocked
  THEN SyncResult([m EXCEPT !.readCount = @ + 1], "returned", TRUE, "none", <<>>)
  ELSE SyncResult([m EXCEPT !.readWaitQueue = Append(@, t)], "suspended", FALSE, "none", <<>>)

rlock(m, t) ==
  IF ~m.writeLocked /\ m.writeWaitQueue = <<>>
  THEN SyncResult([m EXCEPT !.readCount = @ + 1], "returned", TRUE, "none", <<>>)
  ELSE SyncResult([m EXCEPT !.readWaitQueue = Append(@, t)], "suspended", FALSE, "none", <<>>)

(* runlock of the last reader that leaves the queues alone *)
runlock_noWake(m) ==
  IF m.readCount = 0
  THEN SyncResult(m, "thrown", FALSE, "RWMutex: runlock of unlocked read mutex", <<>>)
  ELSE SyncResult([m EXCEPT !.readCount = @ - 1], "returned", TRUE, "none", <<>>)

runlock(m) ==
  IF m.readCount = 0
  THEN SyncResult(m, "thrown", FALSE, "RWMutex: runlock of unlocked read mutex", <<>>)
  ELSE LET m1 == [m EXCEPT !.readCount = @ - 1]
           q == IF m1.readCount = 0 THEN processWaitQueue(m1) ELSE [m |-> m1, wake |-> <<>>]
       IN SyncResult(q.m, "returned", TRUE, "none", q.wake)

RWMutex_tryLock(m) ==
  IF m.writeLocked \/ m.readCount > 0
  THEN SyncResult(m, "returned", FALSE, "none", <<>>)
  ELSE SyncResult([m EXCEPT !.writeLocked = TRUE], "returned", TRUE, "none", <<>>)

tryRLock(m) ==
  IF m.writeLocked \/ m.writeWaitQueue # <<>>
  THEN SyncResult(m, "returned", FALSE, "none", <<>>)
  ELSE SyncResult([m EXCEPT !.readCount = @ + 1], "returned", TRUE, "none", <<>>)

(* the tasks after a call of task t that leaves t in state st: a waiting   *)
(* writer or reader whose promise the call resolved is ready to resume     *)
RWWoken(tk, t, st, wake) ==
  [u \in DOMAIN tk |->
     IF u \in Range(wake)
     THEN (IF tk[u] = "wwait" THEN "wready" ELSE "rready")
     ELSE IF u = t THEN st ELSE tk[u]]

(* A task is "idle" outside the lock; "wwait" or "rwait" on the pending    *)
(* promise of lock() or rlock(); "wready" or "rready" when that promise is *)
(* resolved and the task has not resumed yet; "writing" or "reading" in    *)
(* its section.  obs.behind[t] is the set of writers that were queued when *)
(* t asked for its read lock and have not released the write lock since.   *)
RWInit ==
  /\ rw = RWMutex
  /\ task = [t \in RWTaskIds |-> "idle"]
  /\ obs = [behind |-> [t \in RWTaskIds |-> {}]]
  /\ last = [op |-> "none", t |-> 0, st |-> "none", ok |-> FALSE, error |-> "none"]
  /\ nops = 0
  /\ mu = <<>> /\ sem = <<>>
  /\ NoChan /\ NoRest

(* await rw.lock() *)
RWLock(t) ==
  /\ task[t] = "idle"
  /\ LET r == RWMutex_lock(rw, t)
     IN /\ rw' = r.m
        /\ task' = RWWoken(task, t, IF r.st = "suspended" THEN "wwait" ELSE "wready", r.wake)
        /\ last' = SyncCall("lock", t, r)
  /\ nops' = nops + 1
  /\ UNCHANGED <<obs, chanVars, restVars, mu, sem>>

(* await rw.rlock() *)
RWRLock(t) ==
  /\ task[t] = "idle"
  /\ LET r == rlock(rw, t)
     IN /\ rw' = r.m
        /\ task' = RWWoken(task, t, IF r.st = "suspended" THEN "rwait" ELSE "rready", r.wake)
        /\ last' = SyncCall("rlock", t, r)
  /\ obs' = [obs EXCEPT !.behind[t] = Range(rw.writeWaitQueue)]
  /\ nops' = nops + 1
  /\ UNCHANGED <<chanVars, restVars, mu, sem>>

(* the task resumes after await rw.lock() or await rw.rlock() *)
RWEnter(t) ==
  /\ task[t] \in {"wready", "rready"}
  /\ task' = [task EXCEPT ![t] = IF task[t] = "wready" THEN "writing" ELSE "reading"]
  /\ UNCHANGED <<rw, obs, last, nops, chanVars, restVars, mu, sem>>

(* rw.unlock() by the writer *)
RWUnlock(t) ==
  /\ task[t] = "writing"
  /\ LET r == RWMutex_unlock(rw)
     IN /\ rw' = r.m
        /\ task' = RWWoken(task, t, "idle", r.wake)
        /\ last' = SyncCall("unlock", t, r)
  /\ obs' = [obs EXCEPT !.behind = [u \in RWTaskIds |-> obs.behind[u] \ {t}]]
  /\ nops' = nops + 1
  /\ UNCHANGED <<chanVars, restVars, mu, sem>>

(* rw.runlock() by a reader *)
RWRUnlock(t) ==
  /\ task[t] = "reading"
  /\ LET r == runlock(rw)
     IN /\ rw' = r.m
        /\ task' = RWWoken(task, t, "idle", r.wake)
        /\ last' = SyncCall("runlock", t, r)
  /\ nops' = nops + 1
  /\ UNCHANGED <<obs, chanVars, restVars, mu, sem>>

(* if (rw.tryLock()) { write } *)
RWTryLock(t) ==
  /\ task[t] = "idle"
  /\ LET r == RWMutex_tryLock(rw)
     IN /\ rw' = r.m
        /\ task' = RWWoken(task, t, IF r.ok THEN "writing" ELSE "idle", r.wake)
        /\ last' = SyncCall("tryLock", t, r)
  /\ nops' = nops + 1
  /\ UNCHANGED <<obs, chanVars, restVars, mu, sem>>

(* if (rw.tryRLock()) { read } *)
RWTryRLock(t) ==
  /\ task[t] = "idle"
  /\ LET r == tryRLock(rw)
     IN /\ rw' = r.m
        /\ task' = RWWoken(task, t, IF r.ok THEN "reading" ELSE "idle", r.wake)
        /\ last' = SyncCall("tryRLock", t, r)
  /\ obs' = IF tryRLock(rw).ok
            THEN [obs EXCEPT !.behind[t] = Range(rw.writeWaitQueue)]
            ELSE obs
  /\ nops' = nops + 1
  /\ UNCHANGED <<chanVars, restVars, mu, sem>>

(* every task releases the lock it holds, and only that *)
RWNext ==
  \/ nops < RWMaxOps /\ \E t \in RWTaskIds : RWLock(t)
  \/ nops < RWMaxOps /\ \E t \in RWTaskIds : RWRLock(t)
  \/ \E t \in RWTaskIds : RWEnter(t)
  \/ nops < RWMaxOps /\ \E t \in RWTaskIds : RWUnlock(t)
  \/ nops < RWMaxOps /\ \E t \in RWTaskIds : RWRUnlock(t)
  \/ nops < RWMaxOps /\ \E t \in RWTaskIds : RWTryLock(t)
  \/ nops < RWMaxOps /\ \E t \in RWTaskIds : RWTryRLock(t)

RWSpec == RWInit /\ [][RWNext]_vars

(* C18: while a writer is queued, rlock() suspends and tryRLock() returns  *)
(* false, also when only readers hold the lock; and a reader that asked    *)
(* after a writer was queued holds its read lock only after that writer    *)
(* has held and released the write lock.                                   *)
C18_WriterPriority ==
  /\ [][(SyncCalls("rlock") /\ rw.writeWaitQueue # <<>>) =>
          /\ last'.st = "suspended"
          /\ task'[last'.t] = "rwait"
          /\ rw'.readCount = rw.readCount]_vars
  /\ [][(SyncCalls("tryRLock") /\ rw.writeWaitQueue # <<>>) =>
          /\ ~last'.ok
          /\ rw' = rw]_vars
  /\ [](\A t \in RWTaskIds : task[t] \in {"rready", "reading"} => obs.behind[t] = {})

(* an rlock() suspended behind a queued writer while only readers held the *)
(* lock                                                                    *)
C18_Witness ==
  /\ last.op = "rlock" /\ last.st = "suspended"
  /\ ~rw.writeLocked /\ rw.readCount > 0
  /\ rw.writeWaitQueue # <<>>
  /\ obs.behind[last.t] # {}

(* the step is a release that frees the lock *)
Frees ==
  \/ SyncCalls("unlock") /\ rw.writeLocked
  \/ SyncCalls("runlock") /\ rw.readCount = 1

(* C19: a release that frees the lock with both queues non-empty grants    *)
(* the lock to the oldest queued writer and leaves the readers queued;     *)
(* with only readers queued it admits them all.                            *)
C19_ReleaseOrder ==
  /\ [][(Frees /\ rw.writeWaitQueue # <<>> /\ rw.readWaitQueue # <<>>) =>
          /\ rw'.writeLocked /\ rw'.readCount = 0
          /\ rw'.writeWaitQueue = Tail(rw.writeWaitQueue)
          /\ rw'.readWaitQueue = rw.readWaitQueue
          /\ task'[Head(rw.writeWaitQueue)] = "wready"
          /\ \A u \in Range(rw.readWaitQueue) : task'[u] = "rwait"
          /\ \A u \in Range(Tail(rw.writeWaitQueue)) : task'[u] = "wwait"]_vars
  /\ [][(Frees /\ rw.writeWaitQueue = <<>> /\ rw.readWaitQueue # <<>>) =>
          /\ ~rw'.writeLocked
          /\ rw'.readCount = Len(rw.readWaitQueue)
          /\ rw'.readWaitQueue = <<>>
          /\ \A u \in Range(rw.readWaitQueue) : task'[u] = "rready"]_vars

(* the last reader left, the older of two queued writers was granted the   *)
(* lock and a reader stays queued                                          *)
C19_Witness ==
  /\ last.op = "runlock" /\ last.st = "returned"
  /\ rw.writeLocked
  /\ rw.writeWaitQueue # <<>>
  /\ rw.readWaitQueue # <<>>
  /\ \E t \in RWTaskIds : task[t] = "wready"

(***************************************************************************)
(* Mutex and RWMutex under any sequence of calls: the callers are not      *)
(* tasks that hold and release, every method may be called in every state. *)
(* The waiter of a call that suspends is the number of the call.           *)
(***************************************************************************)
LockMaxOps == 6

MutexOps == {"Mutex.lock", "Mutex.unlock", "Mutex.tryLock"}
RWMutexOps == {"RWMutex.lock", "RWMutex.unlock", "RWMutex.rlock", "RWMutex.runlock",
               "RWMutex.tryLock", "RWMutex.tryRLock"}

MutexMethod(m, op, w) ==
  CASE op = "Mutex.lock" -> Mutex_lock(m, w)
    [] op = "Mutex.unlock" -> Mutex_unlock(m)
    [] op = "Mutex.tryLock" -> Mutex_tryLock(m)

RWMutexMethod(m, op, w) ==
  CASE op = "RWMutex.lock" -> RWMutex_lock(m, w)
    [] op = "RWMutex.unlock" -> RWMutex_unlock(m)
    [] op = "RWMutex.rlock" -> rlock(m, w)
    [] op = "RWMutex.runlock" -> runlock(m)
    [] op = "RWMutex.tryLock" -> RWMutex_tryLock(m)
    [] op = "RWMutex.tryRLock" -> tryRLock(m)

(* obs.resolved: the waiters resolved so far, in order *)
LockInit ==
  /\ mu = Mutex
  /\ rw = RWMutex
  /\ obs = [resolved |-> <<>>]
  /\ last = [op |-> "none", t |-> 0, st |-> "none", ok |-> FALSE, error |-> "none"]
  /\ nops = 0
  /\ task = <<>> /\ sem = <<>>
  /\ NoChan /\ NoRest

MutexCall(op) ==
  /\ LET r == MutexMethod(mu, op, nops + 1)
     IN /\ mu' = r.m
        /\ obs' = [obs EXCEPT !.resolved = @ \o r.wake]
        /\ last' = SyncCall(op, nops + 1, r)
  /\ nops' = nops + 1
  /\ UNCHANGED <<chanVars, restVars, rw, sem, task>>

RWMutexCall(op) ==
  /\ LET r == RWMutexMethod(rw, op, nops + 1)
     IN /\ rw' = r.m
        /\ obs' = [obs EXCEPT !.resolved = @ \o r.wake]
        /\ last' = SyncCall(op, nops + 1, r)
  /\ nops' = nops + 1
  /\ UNCHANGED <<chanVars, restVars, mu, sem, task>>

LockNext ==
  \/ nops < LockMaxOps /\ \E op \in MutexOps : MutexCall(op)
  \/ nops < LockMaxOps /\ \E op \in RWMutexOps : RWMutexCall(op)

LockSpec == LockInit /\ [][LockNext]_vars

(* the step is a release of a lock that is not held *)
StrayRelease ==
  \/ SyncCalls("Mutex.unlock") /\ ~mu.locked
  \/ SyncCalls("RWMutex.unlock") /\ ~rw.writeLocked
  \/ SyncCalls("RWMutex.runlock") /\ rw.readCount = 0

(* the error of a release of a lock that is not held *)
StrayError(op) ==
  CASE op = "Mutex.unlock" -> "Mutex: unlock of unlocked mutex"
    [] op = "RWMutex.unlock" -> "RWMutex: unlock of unlocked write mutex"
    [] op = "RWMutex.runlock" -> "RWMutex: runlock of unlocked read mutex"

(* C16: Mutex.unlock() when not locked, RWMutex.unlock() when not write-   *)
(* locked and RWMutex.runlock() when readCount is 0 raise an error and     *)
(* leave the flags, the read count and the queues as they were; no waiter  *)
(* is resolved.                                                            *)
C16_StrayRelease ==
  [][StrayRelease =>
       /\ last'.st = "thrown"
       /\ last'.error = StrayError(last'.op)
       /\ mu' = mu
       /\ rw' = rw
       /\ obs' = obs]_vars

(* runlock() threw while a writer held the lock and a reader was queued;   *)
(* the mutex is unlocked                                                   *)
C16_Witness ==
  /\ last.op = "RWMutex.runlock" /\ last.st = "thrown"
  /\ rw.writeLocked /\ rw.readCount = 0
  /\ rw.readWaitQueue # <<>>
  /\ ~mu.locked

(* C17: writeLocked implies readCount = 0 in every state, also right after *)
(* a release that admitted the queued readers or a queued writer.          *)
C17_Exclusion ==
  /\ rw.writeLocked => rw.readCount = 0
  /\ rw.readCount >= 0

(* the last runlock() handed the lock to a queued writer *)
C17_Witness ==
  /\ last.op = "RWMutex.runlock" /\ last.st = "returned"
  /\ rw.writeLocked
  /\ obs.resolved # <<>>

(***************************************************************************)
(* Semaphore (src/src/rwmutex.ts).  A waiter is the resolve function of    *)
(* the promise of acquire(), here the id of the task awaiting it.          *)
(***************************************************************************)
MaxPermits == 2
SemTasks == 4
SemTaskIds == 1..SemTasks

Semaphore(permits) == [permits |-> permits, waitQueue |-> <<>>]

acquire(m, t) ==
  IF m.permits > 0
  THEN SyncResult([m EXCEPT !.permits = @ - 1], "returned", TRUE, "none", <<>>)
  ELSE SyncResult([m EXCEPT !.waitQueue = Append(@, t)], "suspended", FALSE, "none", <<>>)

(* release that returns the permit also when it hands it to a waiter *)
release_alwaysCount(m) ==
  IF m.waitQueue # <<>>
  THEN SyncResult([m EXCEPT !.waitQueue = Tail(@), !.permits = @ + 1], "returned", TRUE, "none",
                  <<Head(m.waitQueue)>>)
  ELSE SyncResult([m EXCEPT !.permits = @ + 1], "returned", TRUE, "none", <<>>)

(* release that wakes the newest waiter *)
release_lifo(m) ==
  IF m.waitQueue # <<>>
  THEN SyncResult([m EXCEPT !.waitQueue = SubSeq(@, 1, Len(@) - 1)], "returned", TRUE, "none",
                  <<m.waitQueue[Len(m.waitQueue)]>>)
  ELSE SyncResult([m EXCEPT !.permits = @ + 1], "returned", TRUE, "none", <<>>)

release(m) ==
  IF m.waitQueue # <<>>
  THEN SyncResult([m EXCEPT !.waitQueue = Tail(@)], "returned", TRUE, "none",
                  <<Head(m.waitQueue)>>)
  ELSE SyncResult([m EXCEPT !.permits = @ + 1], "returned", TRUE, "none", <<>>)

tryAcquire(m) ==
  IF m.permits > 0
  THEN SyncResult([m EXCEPT !.permits = @ - 1], "returned", TRUE, "none", <<>>)
  ELSE SyncResult(m, "returned", FALSE, "none", <<>>)

availablePermits(m) == m.permits

(* A task is "idle" before its acquire(), "waiting" on the pending promise *)
(* of acquire(), "granted" or "woken" when the promise is resolved and the *)
(* task has not resumed, "working" with its permit and "done" after its    *)
(* release() or after a tryAcquire() that failed.  obs.K is the number of  *)
(* permits of the constructor, obs.waited the number of acquire() calls    *)
(* that suspended, obs.waitLog the tasks whose acquire() suspended and     *)
(* obs.acqLog those of them that resumed with a permit, both in order.     *)
(* obs.ready is the queue of the continuations of the woken tasks: the     *)
(* promises that release() resolves are awaited in the same way, so their  *)
(* continuations run in the order in which release() resolved them.        *)
SemInit ==
  /\ \E K \in 0..MaxPermits :
       /\ sem = Semaphore(K)
       /\ obs = [K |-> K, waited |-> 0, waitLog |-> <<>>, acqLog |-> <<>>, ready |-> <<>>]
  /\ task = [t \in SemTaskIds |-> "idle"]
  /\ last = [op |-> "none", t |-> 0, st |-> "none", ok |-> FALSE, error |-> "none"]
  /\ nops = 0
  /\ mu = <<>> /\ rw = <<>>
  /\ NoChan /\ NoRest

(* await sem.acquire() *)
SemAcquire(t) ==
  /\ task[t] = "idle"
  /\ LET r == acquire(sem, t)
     IN /\ sem' = r.m
        /\ task' = Woken(task, t, IF r.st = "suspended" THEN "waiting" ELSE "granted", r.wake)
        /\ last' = SyncCall("acquire", t, r)
        /\ obs' = IF r.st = "suspended"
                  THEN [obs EXCEPT !.waited = @ + 1, !.waitLog = Append(@, t)]
                  ELSE obs
  /\ nops' = nops + 1
  /\ UNCHANGED <<chanVars, restVars, mu, rw>>

(* the task resumes after await sem.acquire() and works *)
SemWork(t) ==
  /\ task[t] \in {"granted", "woken"}
  /\ task[t] = "woken" => t = Head(obs.ready)
  /\ task' = [task EXCEPT ![t] = "working"]
  /\ obs' = IF task[t] = "woken"
            THEN [obs EXCEPT !.acqLog = Append(@, t), !.ready = Tail(@)]
            ELSE obs
  /\ UNCHANGED <<sem, last, nops, chanVars, restVars, mu, rw>>

(* sem.release() after the work *)
SemRelease(t) ==
  /\ task[t] = "working"
  /\ LET r == release(sem)
     IN /\ sem' = r.m
        /\ task' = Woken(task, t, "done", r.wake)
        /\ last' = SyncCall("release", t, r)
        /\ obs' = [obs EXCEPT !.ready = @ \o r.wake]
  /\ nops' = nops + 1
  /\ UNCHANGED <<chanVars, restVars, mu, rw>>

(* if (sem.tryAcquire()) { work; release } and nothing otherwise *)
SemTryAcquire(t) ==
  /\ task[t] = "idle"
  /\ LET r == tryAcquire(sem)
     IN /\ sem' = r.m
        /\ task' = Woken(task, t, IF r.ok THEN "working" ELSE "done", r.wake)
        /\ last' = SyncCall("tryAcquire", t, r)
  /\ nops' = nops + 1
  /\ UNCHANGED <<obs, chanVars, restVars, mu, rw>>

SemNext ==
  \/ \E t \in SemTaskIds : SemAcquire(t)
  \/ \E t \in SemTaskIds : SemTryAcquire(t)
  \/ \E t \in SemTaskIds : SemWork(t)
  \/ \E t \in SemTaskIds : SemRelease(t)

SemSpec == SemInit /\ [][SemNext]_vars

(* the tasks that hold a permit: acquire() has resolved, release() is not  *)
(* called yet                                                              *)
Holders == {t \in DOMAIN task : task[t] \in {"granted", "woken", "working"}}

(* C20: never more than K tasks hold a permit, and when every task has     *)
(* released, availablePermits is K again.                                  *)
C20_SemaphoreBound ==
  /\ Cardinality(Holders) <= obs.K
  /\ (\A t \in SemTaskIds : task[t] = "done") => availablePermits(sem) = obs.K

(* more tasks than permits, all finished, as many of them as can be after *)
(* waiting for a permit                                                    *)
C20_Witness ==
  /\ obs.K >= 1 /\ obs.K < SemTasks
  /\ \A t \in SemTaskIds : task[t] = "done"
  /\ last.op = "release"
  /\ obs.waited = SemTasks - obs.K

(* the tasks whose acquire() was resolved by a release() and that have not *)
(* run since                                                               *)
WokenTasks == {t \in DOMAIN task : task[t] = "woken"}

(* C21: release() with queued waiters wakes exactly the oldest waiter and  *)
(* leaves availablePermits unchanged; the waiters resume in the order of   *)
(* their acquire() calls; and while a woken waiter has not run, an         *)
(* acquire() or tryAcquire() takes a permit only when one is counted in    *)
(* availablePermits, never the one handed to the waiter.                   *)
C21_HandOff ==
  /\ [][(SyncCalls("release") /\ sem.waitQueue # <<>>) =>
          /\ availablePermits(sem') = availablePermits(sem)
          /\ sem'.waitQueue = Tail(sem.waitQueue)
          /\ task'[Head(sem.waitQueue)] = "woken"
          /\ \A u \in Range(Tail(sem.waitQueue)) : task'[u] = "waiting"]_vars
  /\ [](IsPrefix(obs.acqLog, obs.waitLog))
  /\ [][((SyncCalls("acquire") \/ SyncCalls("tryAcquire")) /\ WokenTasks # {}) =>
          /\ WokenTasks \subseteq {u \in DOMAIN task' : task'[u] = "woken"}
          /\ last'.ok => availablePermits(sem) > 0
          /\ (last'.op = "acquire" /\ availablePermits(sem) = 0) => last'.st = "suspended"]_vars
  /\ [](Cardinality(Holders) + availablePermits(sem) = obs.K)

(* a tryAcquire() failed while the permit released last was on its way to  *)
(* the second waiter, woken after the first had resumed                    *)
C21_Witness ==
  /\ last.op = "tryAcquire" /\ ~last.ok
  /\ WokenTasks # {}
  /\ availablePermits(sem) = 0
  /\ Len(obs.waitLog) >= 2
  /\ Len(obs.acqLog) >= 1

(***************************************************************************)
(* WaitGroup (src/unnamed/part_017; the same class with go() in            *)
(* src/src/sync/waitgroup.test.ts).  A waiter is the resolve function of   *)
(* the promise of wait(), here the id of the task awaiting it.             *)
(***************************************************************************)
WgTasks == 3
WgMaxOps == 6
WgMaxCount == 2
MaxDelta == 2
WgTaskIds == 1..WgTasks
Deltas == (0 - MaxDelta)..MaxDelta

WaitGroup == [counter |-> 0, waiters |-> <<>>]

(* add that wakes the waiters at every change of the counter *)
WaitGroup_add_wakeAlways(m, delta) ==
  LET m1 == [m EXCEPT !.counter = @ + delta]
  IN IF m1.counter < 0
     THEN SyncResult(m1, "thrown", FALSE, "WaitGroup: negative counter", <<>>)
     ELSE SyncResult([m1 EXCEPT !.waiters = <<>>], "returned", TRUE, "none", m1.waiters)

(* the counter is changed before it is tested: it keeps the negative value *)
(* when add throws                                                         *)
WaitGroup_add(m, delta) ==
  LET m1 == [m EXCEPT !.counter = @ + delta]
  IN IF m1.counter < 0
     THEN SyncResult(m1, "thrown", FALSE, "WaitGroup: negative counter", <<>>)
     ELSE IF m1.counter = 0
     THEN SyncResult([m1 EXCEPT !.waiters = <<>>], "returned", TRUE, "none", m1.waiters)
     ELSE SyncResult(m1, "returned", TRUE, "none", <<>>)

WaitGroup_done(m) == WaitGroup_add(m, -1)

WaitGroup_wait(m, t) ==
  IF m.counter = 0
  THEN SyncResult(m, "returned", TRUE, "none", <<>>)
  ELSE SyncResult([m EXCEPT !.waiters = Append(@, t)], "suspended", FALSE, "none", <<>>)

WaitGroup_counter(m) == m.counter

(* the last call on the wait group, its argument and how it ended *)
WgCall(op, arg, r) ==
  [op |-> op, arg |-> arg, st |-> r.st, ok |-> r.ok, error |-> r.error]

(* A task is "idle", "waiting" on the pending promise of wait(), "passed"  *)
(* or "woken" when the promise is resolved (at once, or by add) and the    *)
(* task has not resumed yet.  add() and done() are called by anyone.       *)
WgInit ==
  /\ wg = WaitGroup
  /\ task = [t \in WgTaskIds |-> "idle"]
  /\ obs = <<>>
  /\ last = [op |-> "none", arg |-> 0, st |-> "none", ok |-> FALSE, error |-> "none"]
  /\ nops = 0
  /\ mu = <<>> /\ rw = <<>> /\ sem = <<>> /\ cond = <<>> /\ ctx = <<>>
  /\ NoChan

(* wg.add(delta) *)
WgAdd(delta) ==
  /\ wg.counter + delta <= WgMaxCount
  /\ LET r == WaitGroup_add(wg, delta)
     IN /\ wg' = r.m
        /\ task' = Woken(task, 0, "none", r.wake)
        /\ last' = WgCall("add", delta, r)
  /\ nops' = nops + 1
  /\ UNCHANGED <<obs, chanVars, mu, rw, sem, cond, ctx>>

(* wg.done() *)
WgDone ==
  /\ LET r == WaitGroup_done(wg)
     IN /\ wg' = r.m
        /\ task' = Woken(task, 0, "none", r.wake)
        /\ last' = WgCall("done", -1, r)
  /\ nops' = nops + 1
  /\ UNCHANGED <<obs, chanVars, mu, rw, sem, cond, ctx>>

(* await wg.wait() *)
WgWait(t) ==
  /\ task[t] = "idle"
  /\ LET r == WaitGroup_wait(wg, t)
     IN /\ wg' = r.m
        /\ task' = Woken(task, t, IF r.st = "suspended" THEN "waiting" ELSE "passed", r.wake)
        /\ last' = WgCall("wait", t, r)
  /\ nops' = nops + 1
  /\ UNCHANGED <<obs, chanVars, mu, rw, sem, cond, ctx>>

(* the task resumes after await wg.wait() *)
WgResume(t) ==
  /\ task[t] \in {"passed", "woken"}
  /\ task' = [task EXCEPT ![t] = "idle"]
  /\ UNCHANGED <<wg, obs, last, nops, chanVars, mu, rw, sem, cond, ctx>>

WgNext ==
  \/ nops < WgMaxOps /\ \E delta \in Deltas : WgAdd(delta)
  \/ nops < WgMaxOps /\ WgDone
  \/ nops < WgMaxOps /\ \E t \in WgTaskIds : WgWait(t)
  \/ \E t \in WgTaskIds : WgResume(t)

WgSpec == WgInit /\ [][WgNext]_vars

(* the step is a call of add or done *)
Adds == SyncCalls("add") \/ SyncCalls("done")

(* C22: a wait() issued while the counter is positive suspends and is      *)
(* resolved only by a step that brings the counter to zero; such a step    *)
(* resolves every pending wait(); and a resolved wait() stays resolved     *)
(* until its task runs, whatever add() does to the counter meanwhile.      *)
C22_WaitCompletion ==
  /\ [][(SyncCalls("wait") /\ WaitGroup_counter(wg) > 0) =>
          (last'.st = "suspended" /\ task'[last'.arg] = "waiting")]_vars
  /\ [][\A t \in WgTaskIds :
          /\ task[t] = "waiting" => task'[t] \in {"waiting", "woken"}
          /\ (task[t] = "waiting" /\ task'[t] = "woken") =>
               (Adds /\ WaitGroup_counter(wg') = 0)
          /\ task[t] = "woken" => task'[t] \in {"woken", "idle"}]_vars
  /\ [][(Adds /\ WaitGroup_counter(wg') = 0) =>
          /\ wg'.waiters = <<>>
          /\ \A t \in WgTaskIds : task[t] = "waiting" => task'[t] = "woken"]_vars
  /\ [](\A t \in WgTaskIds : task[t] = "waiting" <=> t \in Range(wg.waiters))
  /\ [](\A t \in WgTaskIds : task[t] = "woken" => ENABLED WgResume(t))

(* add() made the counter positive again while two resolved waiters have   *)
(* not run                                                                 *)
C22_Witness ==
  /\ last.op = "add" /\ last.st = "returned"
  /\ WaitGroup_counter(wg) > 0
  /\ Cardinality({t \in WgTaskIds : task[t] = "woken"}) >= 2

(* C23: the counter is never negative, and an add(delta) or done() that    *)
(* would drive it below zero raises 'WaitGroup: negative counter'.         *)
C23_CounterNonNegative ==
  /\ [](WaitGroup_counter(wg) >= 0)
  /\ [][(Adds /\ WaitGroup_counter(wg) + last'.arg < 0) =>
          /\ last'.st = "thrown"
          /\ last'.error = "WaitGroup: negative counter"]_vars

(***************************************************************************)
(* WaitGroup.go (src/src/sync/waitgroup.test.ts 261-269):                  *)
(*   this.add(1); try { await fn() } finally { this.done() }               *)
(* fn is one of four kinds: it returns or throws before its first await,   *)
(* or it suspends and its promise is resolved or rejected later.           *)
(***************************************************************************)
GoTasks == 2
GoWaiters == 2
GoMaxInit == 1
GoIds == 1..GoTasks
GoWaiterIds == (GoTasks + 1)..(GoTasks + GoWaiters)
FnKinds == {"returns", "throws", "resolves", "rejects"}

(* the outcome of fn: how its promise (or its call) ends *)
FnOutcome(fn) ==
  IF fn \in {"returns", "resolves"}
  THEN [result |-> "resolved", error |-> "none"]
  ELSE [result |-> "rejected", error |-> "fn error"]

(* a go() call: "idle" before the call, "running" while fn is suspended,   *)
(* "awaiting" when fn has ended and go has not resumed, "finished" after   *)
(* the finally block; dones counts the done() calls of this go()           *)
GoTask(st, fn, out, dones) ==
  [st |-> st, fn |-> fn, result |-> out.result, error |-> out.error, dones |-> dones]

(* a finally block that runs only when fn succeeded *)
go_finally_onSuccess(m, out) ==
  IF out.result = "rejected"
  THEN [r |-> SyncResult(m, "returned", TRUE, "none", <<>>), out |-> out, dones |-> 0]
  ELSE LET r == WaitGroup_done(m)
       IN [r |-> r,
           out |-> IF r.st = "thrown" THEN [result |-> "rejected", error |-> r.error] ELSE out,
           dones |-> 1]

(* the finally block of go: done(), then the outcome of fn, or the error   *)
(* of done() in its place                                                  *)
go_finally(m, out) ==
  LET r == WaitGroup_done(m)
  IN [r |-> r,
      out |-> IF r.st = "thrown" THEN [result |-> "rejected", error |-> r.error] ELSE out,
      dones |-> 1]

(* go(fn) up to its first suspension: add(1), the call of fn, and the      *)
(* finally block at once when fn throws before it suspends                 *)
go(m, fn) ==
  LET a == WaitGroup_add(m, 1)
  IN IF a.st = "thrown"
     THEN [r |-> a, tk |-> GoTask("finished", fn, [result |-> "rejected", error |-> a.error], 0)]
     ELSE IF fn = "throws"
     THEN LET f == go_finally(a.m, FnOutcome(fn))
          IN [r |-> [f.r EXCEPT !.wake = a.wake \o f.r.wake],
              tk |-> GoTask("finished", fn, f.out, f.dones)]
     ELSE [r |-> a,
           tk |-> GoTask(IF fn = "returns" THEN "awaiting" ELSE "running", fn,
                         [result |-> "pending", error |-> "none"], 0)]

(* obs.c0 is the counter before the first go() *)
GoInit ==
  /\ \E c \in 0..GoMaxInit :
       /\ wg = [WaitGroup EXCEPT !.counter = c]
       /\ obs = [c0 |-> c]
  /\ task = [t \in GoIds \cup GoWaiterIds |->
               IF t \in GoIds
               THEN GoTask("idle", "none", [result |-> "pending", error |-> "none"], 0)
               ELSE "idle"]
  /\ last = [op |-> "none", arg |-> 0, st |-> "none", ok |-> FALSE, error |-> "none"]
  /\ nops = 0
  /\ mu = <<>> /\ rw = <<>> /\ sem = <<>> /\ cond = <<>> /\ ctx = <<>>
  /\ NoChan

(* wg.go(fn) *)
GoCall(g, fn) ==
  /\ task[g].st = "idle"
  /\ LET c == go(wg, fn)
     IN /\ wg' = c.r.m
        /\ task' = Woken(task, g, c.tk, c.r.wake)
        /\ last' = WgCall("go", g, c.r)
  /\ nops' = nops + 1
  /\ UNCHANGED <<obs, chanVars, mu, rw, sem, cond, ctx>>

(* the promise of a suspended fn is resolved or rejected *)
FnSettle(g) ==
  /\ task[g].st = "running"
  /\ task' = [task EXCEPT ![g].st = "awaiting"]
  /\ UNCHANGED <<wg, obs, last, nops, chanVars, mu, rw, sem, cond, ctx>>

(* go resumes after await fn(): the finally block, then its own promise *)
GoResume(g) ==
  /\ task[g].st = "awaiting"
  /\ LET f == go_finally(wg, FnOutcome(task[g].fn))
     IN /\ wg' = f.r.m
        /\ task' = Woken(task, g, GoTask("finished", task[g].fn, f.out, task[g].dones + f.dones),
                         f.r.wake)
        /\ last' = WgCall("done", g, f.r)
  /\ nops' = nops + 1
  /\ UNCHANGED <<obs, chanVars, mu, rw, sem, cond, ctx>>

(* await wg.wait() by another task *)
GoWait(t) ==
  /\ task[t] = "idle"
  /\ LET r == WaitGroup_wait(wg, t)
     IN /\ wg' = r.m
        /\ task' = Woken(task, t, IF r.st = "suspended" THEN "waiting" ELSE "passed", r.wake)
        /\ last' = WgCall("wait", t, r)
  /\ nops' = nops + 1
  /\ UNCHANGED <<obs, chanVars, mu, rw, sem, cond, ctx>>

(* that task resumes after await wg.wait() *)
GoWaitResume(t) ==
  /\ task[t] \in {"passed", "woken"}
  /\ task' = [task EXCEPT ![t] = "released"]
  /\ UNCHANGED <<wg, obs, last, nops, chanVars, mu, rw, sem, cond, ctx>>

GoNext ==
  \/ \E g \in GoIds, fn \in FnKinds : GoCall(g, fn)
  \/ \E g \in GoIds : FnSettle(g)
  \/ \E g \in GoIds : GoResume(g)
  \/ \E t \in GoWaiterIds : GoWait(t)
  \/ \E t \in GoWaiterIds : GoWaitResume(t)

GoSpec == GoInit /\ [][GoNext]_vars

(* the go() calls whose fn has started and whose done() is still to come *)
GoOpen == {g \in GoIds : task[g].st \in {"running", "awaiting"}}

GoAllFinished == \A g \in GoIds : task[g].st = "finished"

(* the counter is up by one from the start of fn to the finally block,     *)
(* done() is called once per go(), and go() ends as fn ended               *)
GoCounts ==
  /\ WaitGroup_counter(wg) = obs.c0 + Cardinality(GoOpen)
  /\ \A g \in GoIds :
       /\ task[g].dones = (IF task[g].st = "finished" THEN 1 ELSE 0)
       /\ task[g].st = "finished" =>
            /\ task[g].result = FnOutcome(task[g].fn).result
            /\ task[g].error = FnOutcome(task[g].fn).error

(* C24 as stated: ..., and after all go calls have finished the counter is *)
(* back to its previous value and pending wait() calls are released.       *)
C24_GoAsStated ==
  /\ [](GoCounts)
  /\ [][(~GoAllFinished /\ GoAllFinished') =>
          /\ WaitGroup_counter(wg') = obs.c0
          /\ \A t \in GoWaiterIds : task[t] = "waiting" => task'[t] = "woken"]_vars

(* C24: go(fn) increments the counter before fn starts and decrements it   *)
(* once when fn has ended, by return or by error; the error of fn is the   *)
(* error of go; after all go calls have finished the counter is back to    *)
(* its previous value, and when that value is zero no wait() is pending.   *)
C24_Go ==
  /\ [](GoCounts)
  /\ [][(~GoAllFinished /\ GoAllFinished') =>
          /\ WaitGroup_counter(wg') = obs.c0
          /\ obs.c0 = 0 => \A t \in GoWaiterIds : task[t] = "waiting" => task'[t] = "woken"]_vars
  /\ []((GoAllFinished /\ obs.c0 = 0) => \A t \in GoWaiterIds : task[t] # "waiting")

(* the go() calls have finished, one of them with the error of its fn, and *)
(* the last done() woke two waiters                                        *)
C24_Witness ==
  /\ GoAllFinished
  /\ \E g \in GoIds : task[g].result = "rejected" /\ task[g].error = "fn error"
  /\ \E g \in GoIds : task[g].fn = "resolves"
  /\ last.op = "done"
  /\ \A t \in GoWaiterIds : task[t] = "woken"

(***************************************************************************)
(* Cond (src/src/sync/cond.ts), bound to a Mutex.  A waiter is the         *)
(* callback that resolves the promise awaited inside wait(), here the id   *)
(* of the task inside wait().  signal() and broadcast() hand the waiters   *)
(* to setTimeout(waiter, 0): obs.timers is the queue of these timers,      *)
(* which fire in the order in which they were set.                         *)
(***************************************************************************)
CondTasks == 3
CondMaxOps == 7
CondTaskIds == 1..CondTasks

Cond == [waiters |-> <<>>]

(* wait() up to its first suspension: this.#mutex.unlock(), then the       *)
(* waiter is pushed; c is the Cond, m its Mutex                            *)
Cond_wait(c, m, t) ==
  LET u == Mutex_unlock(m)
  IN IF u.st = "thrown"
     THEN [c |-> c, r |-> u]
     ELSE [c |-> [c EXCEPT !.waiters = Append(@, t)],
           r |-> [u EXCEPT !.st = "suspended", !.ok = FALSE]]

(* wait() that returns without locking the mutex again *)
Cond_wait_relock_noLock(m, t) ==
  SyncResult(m, "returned", TRUE, "none", <<>>)

(* wait() after its promise is resolved: await this.#mutex.lock() *)
Cond_wait_relock(m, t) == Mutex_lock(m, t)

(* signal that wakes every waiter *)
signal_all(c) ==
  [c |-> [c EXCEPT !.waiters = <<>>], timers |-> c.waiters]

(* the Cond after signal() and the timers it set *)
signal(c) ==
  IF Len(c.waiters) > 0
  THEN [c |-> [c EXCEPT !.waiters = Tail(@)], timers |-> <<Head(c.waiters)>>]
  ELSE [c |-> c, timers |-> <<>>]

(* the Cond after broadcast() and the timers it set *)
broadcast(c) ==
  IF Len(c.waiters) > 0
  THEN [c |-> [c EXCEPT !.waiters = <<>>], timers |-> c.waiters]
  ELSE [c |-> c, timers |-> <<>>]

waitersCount(c) == Len(c.waiters)

(* the tasks after a call of t that leaves t in state st: a task whose     *)
(* lock() promise the call resolved is "woken", or "wwoken" when that      *)
(* lock() is the one inside wait(); a task whose timer was set is          *)
(* "signalled"                                                             *)
CondWoken(tk, t, st, wake, timers) ==
  [u \in DOMAIN tk |->
     IF u \in Range(wake) THEN (IF tk[u] = "wlock" THEN "wwoken" ELSE "woken")
     ELSE IF u \in Range(timers) THEN "signalled"
     ELSE IF u = t THEN st ELSE tk[u]]

(* A task is "idle"; "waiting", "granted", "woken" around its lock() as    *)
(* for the Mutex; "cs" in its critical section; inside wait() it is        *)
(* "cwait" in the queue of the Cond, "signalled" when its timer is set,    *)
(* "wlock" in the queue of the mutex, "wgranted" or "wwoken" when the      *)
(* mutex is its own and wait() has not returned yet.  obs.returned lists   *)
(* the tasks whose wait() returned, obs.noops counts the signal() and      *)
(* broadcast() calls that found no waiter.                                 *)
CondInit ==
  /\ cond = Cond
  /\ mu = Mutex
  /\ task = [t \in CondTaskIds |-> "idle"]
  /\ obs = [timers |-> <<>>, returned |-> <<>>, noops |-> 0]
  /\ last = [op |-> "none", t |-> 0, st |-> "none", ok |-> FALSE, error |-> "none"]
  /\ nops = 0
  /\ rw = <<>> /\ sem = <<>> /\ wg = <<>> /\ ctx = <<>>
  /\ NoChan

(* await m.lock() *)
CondLock(t) ==
  /\ task[t] = "idle"
  /\ LET r == Mutex_lock(mu, t)
     IN /\ mu' = r.m
        /\ task' = CondWoken(task, t, IF r.st = "suspended" THEN "waiting" ELSE "granted",
                             r.wake, <<>>)
        /\ last' = SyncCall("lock", t, r)
  /\ nops' = nops + 1
  /\ UNCHANGED <<cond, obs, chanVars, rw, sem, wg, ctx>>

(* the task resumes after await m.lock() *)
CondEnter(t) ==
  /\ task[t] \in {"granted", "woken"}
  /\ task' = [task EXCEPT ![t] = "cs"]
  /\ UNCHANGED <<cond, mu, obs, last, nops, chanVars, rw, sem, wg, ctx>>

(* m.unlock() at the end of the critical section *)
CondUnlock(t) ==
  /\ task[t] = "cs"
  /\ LET r == Mutex_unlock(mu)
     IN /\ mu' = r.m
        /\ task' = CondWoken(task, t, "idle", r.wake, <<>>)
        /\ last' = SyncCall("unlock", t, r)
  /\ nops' = nops + 1
  /\ UNCHANGED <<cond, obs, chanVars, rw, sem, wg, ctx>>

(* await c.wait() by the holder of the mutex *)
CondWait(t) ==
  /\ task[t] = "cs"
  /\ LET w == Cond_wait(cond, mu, t)
     IN /\ cond' = w.c
        /\ mu' = w.r.m
        /\ task' = CondWoken(task, t, IF w.r.st = "suspended" THEN "cwait" ELSE "idle",
                             w.r.wake, <<>>)
        /\ last' = SyncCall("wait", t, w.r)
  /\ nops' = nops + 1
  /\ UNCHANGED <<obs, chanVars, rw, sem, wg, ctx>>

(* c.signal(), by the holder of the mutex or by a task outside *)
CondSignal(t) ==
  /\ task[t] \in {"idle", "cs"}
  /\ LET g == signal(cond)
     IN /\ cond' = g.c
        /\ task' = CondWoken(task, t, task[t], <<>>, g.timers)
        /\ obs' = [obs EXCEPT !.timers = @ \o g.timers,
                              !.noops = IF g.timers = <<>> THEN @ + 1 ELSE @]
        /\ last' = SyncCall("signal", t, SyncResult(mu, "returned", TRUE, "none", <<>>))
  /\ nops' = nops + 1
  /\ UNCHANGED <<mu, chanVars, rw, sem, wg, ctx>>

(* c.broadcast(), by the holder of the mutex or by a task outside *)
CondBroadcast(t) ==
  /\ task[t] \in {"idle", "cs"}
  /\ LET g == broadcast(cond)
     IN /\ cond' = g.c
        /\ task' = CondWoken(task, t, task[t], <<>>, g.timers)
        /\ obs' = [obs EXCEPT !.timers = @ \o g.timers,
                              !.noops = IF g.timers = <<>> THEN @ + 1 ELSE @]
        /\ last' = SyncCall("broadcast", t, SyncResult(mu, "returned", TRUE, "none", <<>>))
  /\ nops' = nops + 1
  /\ UNCHANGED <<mu, chanVars, rw, sem, wg, ctx>>

(* the oldest timer fires: the promise inside wait() is resolved and       *)
(* wait() goes on to await this.#mutex.lock()                              *)
CondRelock(t) ==
  /\ obs.timers # <<>> /\ t = Head(obs.timers)
  /\ LET r == Cond_wait_relock(mu, t)
     IN /\ mu' = r.m
        /\ task' = CondWoken(task, t, IF r.st = "suspended" THEN "wlock" ELSE "wgranted",
                             r.wake, <<>>)
        /\ last' = SyncCall("relock", t, r)
  /\ obs' = [obs EXCEPT !.timers = Tail(@)]
  /\ nops' = nops + 1
  /\ UNCHANGED <<cond, chanVars, rw, sem, wg, ctx>>

(* wait() returns to its caller, which goes on in its critical section *)
CondReturn(t) ==
  /\ task[t] \in {"wgranted", "wwoken"}
  /\ task' = [task EXCEPT ![t] = "cs"]
  /\ obs' = [obs EXCEPT !.returned = Append(@, t)]
  /\ UNCHANGED <<cond, mu, last, nops, chanVars, rw, sem, wg, ctx>>

CondNext ==
  \/ nops < CondMaxOps /\ \E t \in CondTaskIds : CondLock(t)
  \/ \E t \in CondTaskIds : CondEnter(t)
  \/ nops < CondMaxOps /\ \E t \in CondTaskIds : CondUnlock(t)
  \/ nops < CondMaxOps /\ \E t \in CondTaskIds : CondWait(t)
  \/ nops < CondMaxOps /\ \E t \in CondTaskIds : CondSignal(t)
  \/ nops < CondMaxOps /\ \E t \in CondTaskIds : CondBroadcast(t)
  \/ \E t \in CondTaskIds : CondRelock(t)
  \/ \E t \in CondTaskIds : CondReturn(t)

CondSpec == CondInit /\ [][CondNext]_vars

(* the tasks that own the mutex: lock() resolved for them, by the call or  *)
(* inside wait(), and they have not released it                            *)
CondOwners ==
  {t \in CondTaskIds : task[t] \in {"granted", "woken", "cs", "wgranted", "wwoken"}}

(* C25: wait() by the holder of the mutex releases the mutex (it is free   *)
(* or handed to the next task waiting for it) and queues the caller; the   *)
(* caller leaves the queue only by a signal() or broadcast() called after  *)
(* that; and when wait() returns the mutex is locked, for the caller       *)
(* alone.                                                                  *)
C25_CondWait ==
  /\ [][SyncCalls("wait") =>
          /\ task'[last'.t] = "cwait"
          /\ cond'.waiters = Append(cond.waiters, last'.t)
          /\ IF mu.waitQueue = <<>>
             THEN ~mu'.locked
             ELSE task'[Head(mu.waitQueue)] \in {"woken", "wwoken"}]_vars
  /\ [][\A t \in CondTaskIds :
          /\ task[t] = "cwait" => task'[t] \in {"cwait", "signalled"}
          /\ (task[t] = "cwait" /\ task'[t] = "signalled") =>
               (SyncCalls("signal") \/ SyncCalls("broadcast"))
          /\ (task[t] \in {"signalled", "wlock"} /\ task'[t] = "cs") => FALSE
          /\ (task[t] \in {"wgranted", "wwoken"} /\ task'[t] = "cs") =>
               (mu'.locked /\ CondOwners' = {t})]_vars
  /\ [](Cardinality(CondOwners) <= 1 /\ (CondOwners # {} => mu.locked))

(* wait() has returned to a task that had to queue for the mutex, which    *)
(* another task had locked while the first was inside wait()               *)
C25_Witness ==
  /\ obs.returned # <<>>
  /\ task[obs.returned[Len(obs.returned)]] = "cs"
  /\ last.op = "unlock" /\ last.st = "returned"
  /\ last.t # obs.returned[Len(obs.returned)]
  /\ mu.locked

(* the step is a call of signal or broadcast that finds no waiter *)
NoWaiterCall ==
  (SyncCalls("signal") \/ SyncCalls("broadcast")) /\ waitersCount(cond) = 0

(* C26: signal() takes the oldest waiter from the queue and wakes it, the  *)
(* others stay queued; broadcast() wakes every waiter of the queue; with   *)
(* an empty queue both change nothing, and a later wait() suspends all the *)
(* same.                                                                   *)
C26_SignalBroadcast ==
  /\ [][(SyncCalls("signal") /\ waitersCount(cond) > 0) =>
          /\ cond'.waiters = Tail(cond.waiters)
          /\ task'[Head(cond.waiters)] = "signalled"
          /\ \A u \in Range(Tail(cond.waiters)) : task'[u] = "cwait"
          /\ obs'.timers = Append(obs.timers, Head(cond.waiters))]_vars
  /\ [][(SyncCalls("broadcast") /\ waitersCount(cond) > 0) =>
          /\ cond'.waiters = <<>>
          /\ \A u \in Range(cond.waiters) : task'[u] = "signalled"
          /\ obs'.timers = obs.timers \o cond.waiters]_vars
  /\ [][NoWaiterCall =>
          /\ cond' = cond /\ mu' = mu /\ task' = task
          /\ obs'.timers = obs.timers]_vars
  /\ [][SyncCalls("wait") => (last'.st = "suspended" /\ task'[last'.t] = "cwait")]_vars
  /\ [](\A t \in CondTaskIds : task[t] = "cwait" <=> t \in Range(cond.waiters))

(* signal() woke the older of two waiters, after a signal() or broadcast() *)
(* that had found no waiter                                                *)
C26_Witness ==
  /\ last.op = "signal"
  /\ obs.noops >= 1
  /\ waitersCount(cond) >= 1
  /\ \E t \in CondTaskIds : task[t] = "signalled"

(* C30: on a buffered channel free buffer space means that no sender is    *)
(* suspended; and a receive or tryReceive on a full buffer with suspended  *)
(* senders returns the head of the buffer, puts the value of the oldest    *)
(* suspended sender at the tail, resumes that sender alone and leaves the  *)
(* buffer full.                                                            *)
C30_NoSenderBesideSpace ==
  /\ [](\A c \in DOMAIN chans :
          (chans[c].capacity > 0 /\ length(chans[c]) < chans[c].capacity)
            => chans[c].sendWaiters = <<>>)
  /\ [][\A c \in DOMAIN chans :
          ((Calls("receive", c) \/ Calls("tryReceive", c))
             /\ chans[c].capacity > 0
             /\ length(chans[c]) = chans[c].capacity
             /\ chans[c].sendWaiters # <<>>) =>
            LET waiter == Head(chans[c].sendWaiters)
            IN /\ length(chans'[c]) = chans[c].capacity
               /\ Contents(chans'[c]) = Tail(Contents(chans[c])) \o <<waiter.value>>
               /\ chans'[c].sendWaiters = Tail(chans[c].sendWaiters)
               /\ last'.ok /\ last'.val = Head(Contents(chans[c]))
               /\ last'.wake = <<WakeSender(waiter)>>
               /\ prom[waiter.resolve].st = "pending"
               /\ prom'[waiter.resolve].st = "resolved"]_vars

(* a tryReceive took a value from a full buffer behind which two senders   *)
(* were suspended: one of them was resumed, the other is still suspended   *)
(* and the buffer is full again                                            *)
C30_Witness ==
  \E c \in DOMAIN chans :
    /\ chans[c].capacity > 0
    /\ length(chans[c]) = chans[c].capacity
    /\ last.op = "tryReceive" /\ last.c = c /\ last.ok
    /\ Len(last.wake) = 1 /\ last.wake[1].kind = "send"
    /\ chans[c].sendWaiters # <<>>

(***************************************************************************)
(* Context (src/src/context/context.ts).  ctx.c[i] is a DefaultContext:    *)
(* its #err, whether its done promise is resolved, and the callbacks       *)
(* registered on that promise with then() that are not queued yet.         *)
(* ctx.af[a] is an AfterFuncContext.  ctx.micro is the queue of the        *)
(* promise callbacks that are ready to run, in the order in which their    *)
(* promise was resolved and they were registered.                          *)
(***************************************************************************)
NumCtx == 3
NumAfter == 1
CtxMaxOps == 3
CtxIds == 1..NumCtx
AfterIds == 1..NumAfter

ContextCancelledError == "Context cancelled"
CauseError == "cause"

(* undefined as the value of #err and as the argument of cancel *)
NoError == "undefined"

(* context 1 is derived from background(), which never finishes; 2 and 3   *)
(* are derived from 1, every further context from 2                        *)
Parent(i) == IF i = 1 THEN 0 ELSE IF i <= 3 THEN 1 ELSE 2

Derived(i) == {j \in CtxIds : Parent(j) = i}

(* context 1 is made by withCancelCause, whose cancel function takes any   *)
(* error or undefined; the others by withCancel                            *)
CancelArgs(i) ==
  IF i <= 1 THEN {NoError, ContextCancelledError, CauseError} ELSE {ContextCancelledError}

(* derived contexts that register nothing on their parent *)
PropagateTo_none(i) == <<>>

(* the callbacks of new DefaultContext(parent) for the contexts derived    *)
(* from i, in the order of construction                                    *)
PropagateTo(i) ==
  SelectSeq([j \in CtxIds |-> [kind |-> "propagate", to |-> j]],
            LAMBDA cb : Parent(cb.to) = i)

DefaultContext(i) ==
  [err |-> NoError, resolved |-> FALSE, thens |-> PropagateTo(i)]

(* cancel(err) with its argument given, as every caller in the module      *)
(* gives it: the context after the call and the callbacks made ready       *)
cancel(x, err) ==
  IF x.err # NoError
  THEN [x |-> x, ready |-> <<>>]
  ELSE [x |-> [x EXCEPT !.err = err, !.resolved = TRUE, !.thens = <<>>],
        ready |-> IF x.resolved THEN <<>> ELSE x.thens]

(* done().then(cb): the context and the callbacks made ready by it *)
then(x, cb) ==
  IF x.resolved
  THEN [x |-> x, ready |-> <<cb>>]
  ELSE [x |-> [x EXCEPT !.thens = Append(@, cb)], ready |-> <<>>]

(* an AfterFuncContext before afterFunc() makes it; runs counts the calls  *)
(* of fn, unhandled tells that an error of fn reached no handler, called   *)
(* that stop() was called and stopped that a stop() returned true          *)
NoAfterFunc ==
  [parent |-> 0, fn |-> "none", hasFn |-> FALSE, executed |-> FALSE,
   err |-> NoError, resolved |-> FALSE, runs |-> 0, unhandled |-> FALSE,
   called |-> FALSE, stopped |-> FALSE]

AfterFuncContext(parent, fn) ==
  [NoAfterFunc EXCEPT !.parent = parent, !.fn = fn, !.hasFn = TRUE]

(* #executeFunc without its guard *)
executeFunc_noGuard(a) ==
  [a EXCEPT !.executed = TRUE, !.hasFn = FALSE, !.runs = @ + 1,
            !.unhandled = (a.fn = "throws")]

(* #executeFunc(): fn() is called outside any try; a promise it returns    *)
(* gets a catch handler, an exception it throws leaves the then() callback *)
(* and rejects the promise of that then(), which has no handler            *)
executeFunc(a) ==
  IF a.executed \/ ~a.hasFn
  THEN a
  ELSE [a EXCEPT !.executed = TRUE, !.hasFn = FALSE, !.runs = @ + 1,
                 !.unhandled = (a.fn = "throws")]

(* stop(): the AfterFuncContext after the call and the value returned *)
stop(a) ==
  IF a.executed \/ ~a.hasFn
  THEN [a |-> a, ok |-> FALSE]
  ELSE [a |-> [a EXCEPT !.executed = TRUE, !.hasFn = FALSE], ok |-> TRUE]

(* the last call and what it returned *)
CtxCall(op, arg, ok) == [op |-> op, arg |-> arg, ok |-> ok]

CtxInit ==
  /\ ctx = [c |-> [i \in CtxIds |-> DefaultContext(i)],
            af |-> [a \in AfterIds |-> NoAfterFunc],
            micro |-> <<>>]
  /\ obs = [own |-> {}]
  /\ last = CtxCall("none", 0, FALSE)
  /\ nops = 0
  /\ task = <<>>
  /\ mu = <<>> /\ rw = <<>> /\ sem = <<>> /\ wg = <<>> /\ cond = <<>>
  /\ NoChan

(* the cancel function of context i is called with err; obs.own is the set *)
(* of the contexts finished by their own cancel function                   *)
CancelCall(i, err) ==
  /\ LET k == cancel(ctx.c[i], err)
     IN /\ ctx' = [ctx EXCEPT !.c[i] = k.x, !.micro = @ \o k.ready]
        /\ obs' = IF ctx.c[i].resolved THEN obs ELSE [obs EXCEPT !.own = @ \cup {i}]
  /\ last' = CtxCall("cancel", i, TRUE)
  /\ nops' = nops + 1
  /\ UNCHANGED <<task, chanVars, mu, rw, sem, wg, cond>>

(* stop = afterFunc(parent, fn): new AfterFuncContext(parent, fn), whose   *)
(* two constructors each register a callback on parent.done()              *)
AfterFuncCall(a, i, fn) ==
  /\ ctx.af[a].parent = 0
  /\ \A b \in AfterIds : b < a => ctx.af[b].parent # 0
  /\ LET t1 == then(ctx.c[i], [kind |-> "cancelAfter", to |-> a])
         t2 == then(t1.x, [kind |-> "execute", to |-> a])
     IN ctx' = [ctx EXCEPT !.c[i] = t2.x,
                           !.af[a] = AfterFuncContext(i, fn),
                           !.micro = @ \o t1.ready \o t2.ready]
  /\ last' = CtxCall("afterFunc", a, TRUE)
  /\ nops' = nops + 1
  /\ UNCHANGED <<obs, task, chanVars, mu, rw, sem, wg, cond>>

(* stop() *)
StopCall(a) ==
  /\ ctx.af[a].parent # 0
  /\ LET r == stop(ctx.af[a])
     IN /\ ctx' = [ctx EXCEPT !.af[a] = [r.a EXCEPT !.called = TRUE,
                                                   !.stopped = @ \/ r.ok]]
        /\ last' = CtxCall("stop", a, r.ok)
  /\ nops' = nops + 1
  /\ UNCHANGED <<obs, task, chanVars, mu, rw, sem, wg, cond>>

(* the oldest ready callback runs: this.cancel(parent.err()) of a derived  *)
(* context or of an AfterFuncContext, or this.#executeFunc()               *)
Microtask ==
  /\ ctx.micro # <<>>
  /\ LET cb == Head(ctx.micro)
     IN CASE cb.kind = "propagate" ->
               LET k == cancel(ctx.c[cb.to], ctx.c[Parent(cb.to)].err)
               IN ctx' = [ctx EXCEPT !.c[cb.to] = k.x, !.micro = Tail(@) \o k.ready]
          [] cb.kind = "cancelAfter" ->
               LET a == ctx.af[cb.to]
               IN ctx' = [ctx EXCEPT !.af[cb.to] =
                                       IF a.err # NoError THEN a
                                       ELSE [a EXCEPT !.err = ctx.c[a.parent].err,
                                                      !.resolved = TRUE],
                                     !.micro = Tail(@)]
          [] cb.kind = "execute" ->
               ctx' = [ctx EXCEPT !.af[cb.to] = executeFunc(@), !.micro = Tail(@)]
  /\ UNCHANGED <<obs, last, nops, task, chanVars, mu, rw, sem, wg, cond>>

CtxNext ==
  \/ nops < CtxMaxOps /\ \E i \in CtxIds : \E err \in CancelArgs(i) : CancelCall(i, err)
  \/ nops < CtxMaxOps /\ \E a \in AfterIds, i \in CtxIds, fn \in FnKinds : AfterFuncCall(a, i, fn)
  \/ nops < CtxMaxOps /\ \E a \in AfterIds : StopCall(a)
  \/ Microtask

(* a ready callback runs in the end: the callbacks of resolved promises    *)
(* are run before the program ends                                         *)
CtxSpec == CtxInit /\ [][CtxNext]_vars /\ WF_vars(Microtask)

Registered(a) == ctx.af[a].parent # 0

StopCalls(a) == nops' = nops + 1 /\ last'.op = "stop" /\ last'.arg = a

(* C27: the function given to afterFunc runs at most once, and only after  *)
(* its context finished and with no stop() having returned true; stop()    *)
(* returns true exactly when no stop() was called before and fn has not    *)
(* started; and once the context has finished, fn runs unless a stop()     *)
(* returned true.                                                          *)
C27_AfterFunc ==
  /\ [](\A a \in AfterIds :
          /\ ctx.af[a].runs <= 1
          /\ ctx.af[a].runs = 1 => ctx.c[ctx.af[a].parent].resolved /\ ~ctx.af[a].stopped)
  /\ [][\A a \in AfterIds :
          StopCalls(a) => (last'.ok <=> (~ctx.af[a].called /\ ctx.af[a].runs = 0))]_vars
  /\ \A a \in AfterIds :
       (Registered(a) /\ ctx.c[ctx.af[a].parent].resolved /\ ~ctx.af[a].stopped)
         ~> (ctx.af[a].runs = 1 \/ ctx.af[a].stopped)

(* fn has run, and the stop() called after it returned false *)
C27_Witness ==
  /\ last.op = "stop" /\ ~last.ok
  /\ ctx.af[last.arg].runs = 1 /\ ~ctx.af[last.arg].stopped

CancelCalls(j) == nops' = nops + 1 /\ last'.op = "cancel" /\ last'.arg = j

(* a context is finished only by its own cancel function or after the      *)
(* context it is derived from, and a call of the cancel function of one    *)
(* context changes no other context                                        *)
DownwardsOnly ==
  /\ [](\A j \in CtxIds :
          ctx.c[j].resolved =>
            j \in obs.own \/ (Parent(j) # 0 /\ ctx.c[Parent(j)].resolved))
  /\ [][\A j \in CtxIds :
          CancelCalls(j) =>
            \A k \in CtxIds \ {j} :
              ctx'.c[k].err = ctx.c[k].err /\ ctx'.c[k].resolved = ctx.c[k].resolved]_vars

C29_Contained == \A a \in AfterIds : ~ctx.af[a].unhandled

(* C31: while a receiver is suspended on a channel, the buffer of the      *)
(* channel is empty, no sender is suspended on it and it is not closed.    *)
C31_ReceiverWaitsForNothing ==
  \A c \in DOMAIN chans :
    chans[c].receiveWaiters # <<>> =>
      /\ length(chans[c]) = 0
      /\ chans[c].sendWaiters = <<>>
      /\ ~chans[c].closed

(* two receivers are suspended on a buffered channel through which values  *)
(* have already passed                                                     *)
C31_Witness ==
  \E c \in DOMAIN chans :
    /\ chans[c].capacity > 0
    /\ Len(chans[c].receiveWaiters) >= 2
    /\ Len(obs.recvLog[c]) >= 2
    /\ last.op = "receive" /\ last.st = "pending"

(* a send() on channel c with promise p that was suspended when the        *)
(* channel was closed: after close() no send() is suspended any more       *)
Abandoned(c, p) ==
  /\ chans[c].closed
  /\ prom[p].op = "send" /\ prom[p].ch = c /\ prom[p].st = "pending"

SelectResolved ==
  /\ sel.st = "done" /\ sel.hit = 0
  /\ sel.fired # <<>> /\ sel.cases[sel.fired[1]].kind # "default"

(* C33: once a select that was suspended has resolved, none of the waiters *)
(* it registered is left in the sender or receiver queue of a channel.     *)
C33_NoGhostWaiter ==
  SelectResolved =>
    \A c \in DOMAIN chans :
      /\ \A i \in 1..Len(chans[c].sendWaiters) : chans[c].sendWaiters[i].resolve <= NProm
      /\ \A i \in 1..Len(chans[c].receiveWaiters) : chans[c].receiveWaiters[i].resolve <= NProm

(* an unlock() has handed the mutex to a waiter that has not resumed yet *)
HandOffPending == \E t \in DOMAIN task : task[t] = "woken"

(* C34: a non-empty wait queue means the mutex is locked; an unlock() with *)
(* queued waiters removes the oldest waiter alone and leaves locked true;  *)
(* and until the woken waiter resumes the mutex is locked, tryLock()       *)
(* returns false and lock() queues behind the waiters that remain.         *)
C34_NoBarging ==
  /\ [](/\ mu.waitQueue # <<>> => mu.locked
        /\ HandOffPending => mu.locked)
  /\ [][/\ (SyncCalls("unlock") /\ mu.waitQueue # <<>>) =>
             mu'.waitQueue = Tail(mu.waitQueue) /\ mu'.locked
        /\ (SyncCalls("tryLock") /\ HandOffPending) =>
             ~last'.ok /\ mu' = mu
        /\ (SyncCalls("lock") /\ HandOffPending) =>
             /\ last'.st = "suspended"
             /\ mu'.waitQueue = Append(mu.waitQueue, last'.t)
             /\ mu'.locked]_vars

(* while the woken waiter has not resumed and another still waits, a       *)
(* tryLock() was refused                                                   *)
C34_Witness ==
  /\ HandOffPending
  /\ mu.waitQueue # <<>>
  /\ last.op = "tryLock" /\ ~last.ok

(* C35: a tryReceive() that returns [undefined, false] and a trySend()     *)
(* that returns false change nothing: buffer, length, closed flag, both    *)
(* waiter queues and every promise are as before the call.                 *)
C35_FailedTryIsNoOp ==
  [][\A c \in DOMAIN chans :
       ((Calls("tryReceive", c) \/ Calls("trySend", c)) /\ ~last'.ok) =>
         /\ chans'[c] = chans[c]
         /\ prom' = prom
         /\ last'.val = Undefined /\ last'.wake = <<>>]_vars

(* a tryReceive() failed while receivers are suspended on the channel *)
C35_Witness ==
  \E c \in DOMAIN chans :
    /\ last.op = "tryReceive" /\ last.c = c /\ ~last.ok
    /\ chans[c].receiveWaiters # <<>>
    /\ obs.sentLog[c] # <<>>

(* how often each value occurs in the sequence s *)
BagOf(s) == [v \in Range(s) |-> Cardinality({i \in 1..Len(s) : s[i] = v})]

(* the values of the senders suspended on ch, oldest first *)
Waiting(ch) == [i \in 1..Len(ch.sendWaiters) |-> ch.sendWaiters[i].value]

(* C36: on a channel on which no sender was suspended at close(), the      *)
(* values accepted by send() and trySend() are, each as often as it was    *)
(* accepted, the values handed to receive() and tryReceive(), those in the *)
(* buffer and those of the suspended senders.                              *)
C36_Conservation ==
  \A c \in DOMAIN chans :
    (\A p \in DOMAIN prom : ~Abandoned(c, p)) =>
      BagOf(obs.sentLog[c])
        = BagOf(obs.recvLog[c] \o Contents(chans[c]) \o Waiting(chans[c]))

(* values have been received, the buffer holds one and a sender is         *)
(* suspended behind it                                                     *)
C36_Witness ==
  \E c \in DOMAIN chans :
    /\ Len(obs.recvLog[c]) >= 2
    /\ length(chans[c]) >= 1
    /\ chans[c].sendWaiters # <<>>
    /\ last.op = "tryReceive" /\ last.ok

(* C37: while a writer is queued the lock is held, by a writer or by       *)
(* readers; while a reader is queued a writer holds the lock or is queued. *)
C37_NoStrandedWaiter ==
  /\ rw.writeWaitQueue # <<>> => (rw.writeLocked \/ rw.readCount > 0)
  /\ rw.readWaitQueue # <<>> => (rw.writeLocked \/ rw.writeWaitQueue # <<>>)

(* the last reader has released the lock to the queued writer, behind      *)
(* which a reader is still queued                                          *)
C37_Witness ==
  /\ last.op = "RWMutex.runlock" /\ last.st = "returned"
  /\ rw.writeLocked /\ rw.readCount = 0
  /\ rw.readWaitQueue # <<>>
  /\ obs.resolved # <<>>

(***************************************************************************)
(* Semaphore called by anybody: acquire(), tryAcquire() and release() in   *)
(* any order, release() also by callers that hold no permit.  A waiter is  *)
(* named by the number of the acquire() call that queued it.               *)
(***************************************************************************)
SemMaxOps == 6

SemaphoreOps == {"acquire", "tryAcquire", "release"}

SemaphoreMethod(m, op, w) ==
  CASE op = "acquire" -> acquire(m, w)
    [] op = "tryAcquire" -> tryAcquire(m)
    [] op = "release" -> release(m)

(* get queueLength() *)
queueLength(m) == Len(m.waitQueue)

(* new Semaphore(K) throws for K < 0; obs.resolved: the waiters resolved   *)
(* so far, in order                                                        *)
SemAnyInit ==
  /\ \E K \in 0..MaxPermits : sem = Semaphore(K)
  /\ obs = [resolved |-> <<>>]
  /\ last = [op |-> "none", t |-> 0, st |-> "none", ok |-> FALSE, error |-> "none"]
  /\ nops = 0
  /\ mu = <<>> /\ rw = <<>> /\ task = <<>>
  /\ NoChan /\ NoRest

SemaphoreCall(op) ==
  /\ nops < SemMaxOps
  /\ LET r == SemaphoreMethod(sem, op, nops + 1)
     IN /\ sem' = r.m
        /\ obs' = [obs EXCEPT !.resolved = @ \o r.wake]
        /\ last' = SyncCall(op, nops + 1, r)
  /\ nops' = nops + 1
  /\ UNCHANGED <<chanVars, restVars, mu, rw, task>>

SemAnyNext == \E op \in SemaphoreOps : SemaphoreCall(op)

SemAnySpec == SemAnyInit /\ [][SemAnyNext]_vars

(* C38: the number of available permits is never negative, and it is zero  *)
(* while an acquire() is queued.                                           *)
C38_SemaphoreState ==
  /\ availablePermits(sem) >= 0
  /\ queueLength(sem) > 0 => availablePermits(sem) = 0

(* a release() has resumed the oldest waiter while another still waits     *)
C38_Witness ==
  /\ last.op = "release"
  /\ obs.resolved # <<>>
  /\ queueLength(sem) > 0

(* C39: once a context is done its error does not change any more.         *)
C39_FinishedIsFinal ==
  [][\A i \in CtxIds : ctx.c[i].resolved => ctx'.c[i].err = ctx.c[i].err]_vars

(***************************************************************************)
(* Mutex with tasks that go on: a task that holds the mutex reaches its    *)
(* unlock(), and a task whose lock() promise is resolved resumes.  Only    *)
(* the calls that take the mutex are counted against the bound, so that    *)
(* every holder can release it.                                            *)
(***************************************************************************)
MuFairOps == 5

MuFairNext ==
  \/ nops < MuFairOps /\ \E t \in MuTaskIds : MuLock(t)
  \/ nops < MuFairOps /\ \E t \in MuTaskIds : MuTryLock(t)
  \/ \E t \in MuTaskIds : MuEnter(t)
  \/ \E t \in MuTaskIds : MuWork(t)
  \/ \E t \in MuTaskIds : MuUnlock(t)

MuFairSpec ==
  /\ MuInit /\ [][MuFairNext]_vars
  /\ \A t \in MuTaskIds : WF_vars(MuEnter(t)) /\ WF_vars(MuWork(t)) /\ WF_vars(MuUnlock(t))

(* C40: when every task that holds the mutex unlocks it in the end, every  *)
(* lock() call returns in the end, whether it was suspended or not.        *)
C40_MutexProgress ==
  \A t \in MuTaskIds :
    (task[t] \in {"waiting", "granted", "woken"}) ~> (task[t] = "cs1")

(* three suspended lock() calls have returned and the mutex is free again  *)
C40_Witness ==
  /\ Len(obs.acqLog) >= 3
  /\ ~mu.locked /\ mu.waitQueue = <<>>
  /\ \A t \in MuTaskIds : task[t] = "idle"

====
